---- MODULE Spec2Model ----
(***************************************************************************)
(* Model of the password-import pipeline (lib/ai-import, the import API    *)
(* route) and of the envelope encryption module (lib/encryption).          *)
(*                                                                         *)
(* Strings are sequences of UTF-16 code units (integers), byte buffers are *)
(* sequences of integers in 0..255.  A token is the string                 *)
(* hex(salt):hex(iv):hex(ciphertext):hex(authTag).                         *)
(***************************************************************************)
EXTENDS Integers, Sequences, FiniteSets, TLC

(***************************************************************************)
(* Bounds of the model.                                                    *)
(***************************************************************************)
\* longest plaintext (in UTF-16 code units) handed to encrypt in SpecCipher
MaxLen == 2
\* largest number of lines of an uploaded file in Spec
MaxLines == 3
\* characters of a text handed to splitTextIntoChunks
MaxText == 5
\* data rows of a CSV text handed to processCSVContent
MaxRows == 3

(***************************************************************************)
(* Program constants.                                                      *)
(***************************************************************************)
MASTER_PBKDF2_KEYLEN == 32
MASTER_SALT_LENGTH == 16
AES_IV_LENGTH == 16
AES_TAG_LENGTH == 16
\* maxChunkSize of processContentWithAI
maxChunkSize == 6000

(***************************************************************************)
(* Generic sequence helpers.                                               *)
(***************************************************************************)
Min(S) == CHOOSE x \in S : \A y \in S : x =< y

\* String.prototype.indexOf(c): first 1-based position of c, 0 when absent
indexOf(s, c) ==
  LET P == {j \in 1..Len(s) : s[j] = c}
  IN  IF P = {} THEN 0 ELSE Min(P)

RECURSIVE split(_, _)
\* String.prototype.split(sep) for a one-character separator
split(s, sep) ==
  LET p == indexOf(s, sep)
  IN  IF p = 0 THEN <<s>>
      ELSE <<SubSeq(s, 1, p - 1)>> \o split(SubSeq(s, p + 1, Len(s)), sep)

RECURSIVE join(_, _)
\* Array.prototype.join(sep) for a one-character separator
join(parts, sep) ==
  IF parts = <<>> THEN <<>>
  ELSE IF Len(parts) = 1 THEN parts[1]
  ELSE parts[1] \o <<sep>> \o join(Tail(parts), sep)

(***************************************************************************)
(* Hex encoding: Buffer.toString("hex") writes lowercase digits;           *)
(* Buffer.from(s, "hex") accepts both cases and stops at the first         *)
(* character that is not a hex digit or at a trailing single digit.        *)
(***************************************************************************)
HexDigit(n) == IF n < 10 THEN 48 + n ELSE 87 + n

toHex(bytes) ==
  [k \in 1..(2 * Len(bytes)) |->
     IF k % 2 = 1 THEN HexDigit(bytes[(k + 1) \div 2] \div 16)
                  ELSE HexDigit(bytes[k \div 2] % 16)]

HexVal(c) ==
  IF c >= 48 /\ c =< 57 THEN c - 48
  ELSE IF c >= 97 /\ c =< 102 THEN c - 87
  ELSE IF c >= 65 /\ c =< 70 THEN c - 55
  ELSE -1

fromHex(s) ==
  LET bad   == {j \in 1..Len(s) : HexVal(s[j]) < 0}
      valid == IF bad = {} THEN Len(s) ELSE Min(bad) - 1
  IN  [k \in 1..(valid \div 2) |-> 16 * HexVal(s[2 * k - 1]) + HexVal(s[2 * k])]

(***************************************************************************)
(* UTF-8 encoding of a JavaScript string (cipher.update(p, "utf8", ...)):  *)
(* a surrogate pair is one code point of four bytes, a lone surrogate is   *)
(* written as U+FFFD.  Decoding (decipher.update(..., "utf8")) is the      *)
(* inverse on well-formed input and writes U+FFFD for a byte that starts   *)
(* no well-formed sequence.                                                *)
(***************************************************************************)
IsHighSurrogate(u) == u >= 55296 /\ u =< 56319
IsLowSurrogate(u) == u >= 56320 /\ u =< 57343

EncodeCodePoint(cp) ==
  IF cp < 128 THEN <<cp>>
  ELSE IF cp < 2048 THEN <<192 + (cp \div 64), 128 + (cp % 64)>>
  ELSE IF cp < 65536
    THEN <<224 + (cp \div 4096), 128 + ((cp \div 64) % 64), 128 + (cp % 64)>>
  ELSE <<240 + (cp \div 262144), 128 + ((cp \div 4096) % 64),
         128 + ((cp \div 64) % 64), 128 + (cp % 64)>>

RECURSIVE utf8Encode(_)
utf8Encode(s) ==
  IF s = <<>> THEN <<>>
  ELSE IF IsHighSurrogate(s[1]) /\ Len(s) >= 2 /\ IsLowSurrogate(s[2])
    THEN EncodeCodePoint(65536 + (s[1] - 55296) * 1024 + (s[2] - 56320))
           \o utf8Encode(Tail(Tail(s)))
  ELSE IF IsHighSurrogate(s[1]) \/ IsLowSurrogate(s[1])
    THEN EncodeCodePoint(65533) \o utf8Encode(Tail(s))
  ELSE EncodeCodePoint(s[1]) \o utf8Encode(Tail(s))

IsCont(b, k) == Len(b) >= k /\ b[k] >= 128 /\ b[k] =< 191

RECURSIVE utf8Decode(_)
utf8Decode(b) ==
  IF b = <<>> THEN <<>>
  ELSE IF b[1] < 128 THEN <<b[1]>> \o utf8Decode(Tail(b))
  ELSE IF b[1] >= 194 /\ b[1] =< 223 /\ IsCont(b, 2)
    THEN <<(b[1] - 192) * 64 + (b[2] - 128)>> \o utf8Decode(SubSeq(b, 3, Len(b)))
  ELSE IF b[1] >= 224 /\ b[1] =< 239 /\ IsCont(b, 2) /\ IsCont(b, 3)
    THEN <<(b[1] - 224) * 4096 + (b[2] - 128) * 64 + (b[3] - 128)>>
           \o utf8Decode(SubSeq(b, 4, Len(b)))
  ELSE IF b[1] >= 240 /\ b[1] =< 244 /\ IsCont(b, 2) /\ IsCont(b, 3) /\ IsCont(b, 4)
    THEN LET cp == (b[1] - 240) * 262144 + (b[2] - 128) * 4096
                     + (b[3] - 128) * 64 + (b[4] - 128)
         IN  <<55296 + ((cp - 65536) \div 1024), 56320 + ((cp - 65536) % 1024)>>
               \o utf8Decode(SubSeq(b, 5, Len(b)))
  ELSE <<65533>> \o utf8Decode(Tail(b))

(***************************************************************************)
(* Results of encrypt/decrypt: a string, null, or a thrown Error.          *)
(***************************************************************************)
Str(s) == [kind |-> "string", str |-> s]
Null == [kind |-> "null", str |-> <<>>]
Throw == [kind |-> "throw", str |-> <<>>]

(***************************************************************************)
(* node:crypto primitives, modelled by their contract.                     *)
(*   randomBytes(n): any buffer of n bytes; the model draws from two.      *)
(*   pbkdf2: a deterministic function of (master, salt) whose outputs      *)
(*     differ whenever master or the 16-byte salt differ.                  *)
(*   aes-256-gcm: a keystream cipher (ciphertext as long as the            *)
(*     plaintext) with a 16-byte tag that is a function of key, IV and     *)
(*     ciphertext; final() throws unless the tag set by setAuthTag is the  *)
(*     tag of (key, IV, ciphertext).                                       *)
(***************************************************************************)
randomBytes(n) == {[i \in 1..n |-> b] : b \in {171, 29}}

At(buf, p) == IF buf = <<>> THEN 0 ELSE buf[((p - 1) % Len(buf)) + 1]

deriveEncryptionKey(masterPassword, salt) ==
  LET mb == utf8Encode(masterPassword)
  IN  [i \in 1..MASTER_PBKDF2_KEYLEN |->
         IF i =< MASTER_SALT_LENGTH THEN At(salt, i) ELSE At(mb, i - MASTER_SALT_LENGTH)]

gcmTag(key, iv, ct) ==
  [i \in 1..AES_TAG_LENGTH |->
     (key[i] + key[i + 16] + At(iv, i)
        + (IF i = AES_TAG_LENGTH THEN Len(ct)
           ELSE IF i =< Len(ct) THEN ct[i] ELSE 0)) % 256]

gcmCipher(key, iv, pt) ==
  [p \in 1..Len(pt) |-> (pt[p] + At(key, p) + At(iv, p)) % 256]

gcmDecipher(key, iv, ct) ==
  [p \in 1..Len(ct) |-> (ct[p] + 512 - At(key, p) - At(iv, p)) % 256]

\* tag lengths setAuthTag accepts when no authTagLength option was given:
\* builds before the deprecation of short tags accept 4, 8 and 12..16 bytes
\* and compare only that many bytes; newer builds accept 16 only
gcmTagAccepted(key, iv, ct, tag, shortTags) ==
  /\ iv # <<>>
  /\ \/ Len(tag) = AES_TAG_LENGTH
     \/ shortTags /\ Len(tag) \in {4, 8, 12, 13, 14, 15}
  /\ tag = SubSeq(gcmTag(key, iv, ct), 1, Len(tag))

(***************************************************************************)
(* lib/encryption                                                          *)
(***************************************************************************)
\* encrypt(plainTextPassword) with the salt and the IV that randomBytes gave
encrypt(master, plainTextPassword, salt, iv) ==
  IF master = <<>> THEN Throw
  ELSE LET encryptionKey == deriveEncryptionKey(master, salt)
           encrypted     == gcmCipher(encryptionKey, iv, utf8Encode(plainTextPassword))
           authTag       == gcmTag(encryptionKey, iv, encrypted)
       IN  Str(toHex(salt) \o <<58>> \o toHex(iv) \o <<58>> \o toHex(encrypted)
                 \o <<58>> \o toHex(authTag))

\* decrypt with an emptiness test on the fields: if (parts.some((p) => !p)) return null
decryptRejectingEmptyField(master, encryptedString, shortTags) ==
  IF master = <<>> THEN Throw
  ELSE LET parts == split(encryptedString, 58)
       IN  IF Len(parts) # 4 \/ \E f \in 1..Len(parts) : parts[f] = <<>> THEN Null
           ELSE LET encryptionKey == deriveEncryptionKey(master, fromHex(parts[1]))
                IN  IF gcmTagAccepted(encryptionKey, fromHex(parts[2]), fromHex(parts[3]),
                                      fromHex(parts[4]), shortTags)
                      THEN Str(utf8Decode(gcmDecipher(encryptionKey, fromHex(parts[2]),
                                                      fromHex(parts[3]))))
                      ELSE Null

\* decrypt with the field count tested as parts.length < 4
decryptAtLeastFourFields(master, encryptedString, shortTags) ==
  IF master = <<>> THEN Throw
  ELSE LET parts == split(encryptedString, 58)
       IN  IF Len(parts) < 4 THEN Null
           ELSE LET encryptionKey == deriveEncryptionKey(master, fromHex(parts[1]))
                IN  IF gcmTagAccepted(encryptionKey, fromHex(parts[2]), fromHex(parts[3]),
                                      fromHex(parts[4]), shortTags)
                      THEN Str(utf8Decode(gcmDecipher(encryptionKey, fromHex(parts[2]),
                                                      fromHex(parts[3]))))
                      ELSE Null

decrypt(master, encryptedString, shortTags) ==
  IF master = <<>> THEN Throw
  ELSE LET parts == split(encryptedString, 58)
       IN  IF Len(parts) # 4 THEN Null
           ELSE LET salt          == fromHex(parts[1])
                    iv            == fromHex(parts[2])
                    encryptedText == fromHex(parts[3])
                    authTag       == fromHex(parts[4])
                    encryptionKey == deriveEncryptionKey(master, salt)
                IN  IF gcmTagAccepted(encryptionKey, iv, encryptedText, authTag, shortTags)
                      THEN Str(utf8Decode(gcmDecipher(encryptionKey, iv, encryptedText)))
                      ELSE Null

(***************************************************************************)
(* State.                                                                  *)
(***************************************************************************)
VARIABLES
  MASTER_PASSWORD_ENV, \* process.env.MASTER_PASSWORD, <<>> when not set
  plain,               \* SpecCipher: the plaintext handed to encrypt
  token,               \* SpecCipher: the token handed to decrypt
  issued,              \* SpecCipher: the token as encrypt returned it
  altered,             \* SpecCipher: what was done to the token since
  result,              \* SpecCipher: what encrypt or decrypt returned last
  stage,               \* SpecCipher: "idle", "encrypted", "altered", "decrypted"
  request,             \* the POST request: subject, Accept header, form data
  dbUser,              \* the user row prisma.user.findUnique finds, or "none"
  handler,             \* "sse" (handleSSEImport) or "regular" (handleRegularImport)
  pc,                  \* where the request handler is suspended
  chunks,              \* processContentWithAI: chunks, each given by its length
  i,                   \* processContentWithAI: index of the chunk sent to the model
  allPasswords,        \* processContentWithAI: records accumulated so far
  events,              \* the frames enqueued on the response stream, in order
  channel,             \* the stream controller: "none", "open", "cancelled", "closed"
  importResult,        \* what importPasswords returned
  idx,                 \* save loop: index of the record being saved
  encryptedPassword,   \* save loop: the token encrypt returned for that record
  savedPasswords,      \* save loop: the rows the store returned
  errors,              \* save loop: the error strings
  store,               \* the password table
  response,            \* the HTTP response of a request that does not stream
  modelCalls,          \* history: the calls of streamText and how each ended
  saveLog,             \* history: the save attempts, how each ended, and whether
                       \* create was called with the secret itself as password
  textArg,             \* SpecText: the text handed to the function under test
  sizeArg,             \* SpecText: the maxChunkSize handed to splitTextIntoChunks
  called,              \* SpecText: "none", "splitTextIntoChunks", "processCSVContent"
  returned,            \* SpecText: what the function returned
  passwordTable,                \* SpecRead: the password table, by record id
  decryptionCache,     \* SpecRead: the module's Map from cache key to plaintext
  now,                 \* SpecRead: the clock, in milliseconds
  reading,             \* SpecRead: the request in flight that reads a record
  readLog,             \* SpecRead: history: the records handed to
                       \* transformPasswordData and what it returned for each
  wire,                \* SpecDialog: the rest of the response body, not yet read
  importState,         \* SpecDialog: the dialog's importState (isImporting, status)
  reader,              \* SpecDialog: where handleFileSelect is in its read loop
  shareableLink,       \* SpecShare: the shareableLink row of the token, or NoLink
  users,               \* SpecShare: the clerkIds that have a user row
  userPassword,        \* SpecShare: the userPassword rows, as <<userId, passwordId>>
  userPasswordGroup,   \* SpecShare: the userPasswordGroup rows
  posts                \* SpecShare: the POST requests, each with its position,
                       \* its response and what it found and created

cipherVars == <<plain, token, issued, altered, result, stage>>
pipeVars == <<request, dbUser, handler, pc, chunks, i, allPasswords, events, channel,
              importResult, idx, encryptedPassword, savedPasswords, errors, store,
              response, modelCalls, saveLog>>
textVars == <<textArg, sizeArg, called, returned>>
readVars == <<passwordTable, decryptionCache, now, reading, readLog>>
dialogVars == <<wire, importState, reader>>
shareVars == <<shareableLink, users, userPassword, userPasswordGroup, posts>>
laterVars == <<readVars, dialogVars, shareVars>>
vars == <<MASTER_PASSWORD_ENV, cipherVars, pipeVars, textVars, laterVars>>

(***************************************************************************)
(* Inputs of SpecCipher.                                                   *)
(***************************************************************************)
\* 'a', ':', a high surrogate, a low surrogate
PlainUnits == {97, 58, 55357, 56832}
Strings(n) == UNION {[1..k -> PlainUnits] : k \in 0..n}
\* configured master secrets: "m", "n"
Masters == {<<109>>, <<110>>}
Unaltered == [kind |-> "none", field |-> 0, pos |-> 0]

NoResult == [passwords |-> <<>>, totalProcessed |-> 0, successCount |-> 0,
             errorCount |-> 0, errors |-> <<>>]
NoResponse == [status |-> 0, success |-> FALSE, savedCount |-> 0, errors |-> <<>>,
               passwords |-> <<>>]
NoRequest == [userId |-> "none", wantsSSE |-> FALSE, form |-> "ok", file |-> FALSE,
              fileType |-> "", ext |-> "", lines |-> <<>>]

\* no function is under test
TextOff ==
  /\ textArg = <<>>
  /\ sizeArg = 0
  /\ called = "off"
  /\ returned = [chunks |-> <<>>, passwords |-> <<>>, threw |-> FALSE]

\* no import request is being served
NoRecord == [id |-> <<>>, password |-> <<>>, updatedAt |-> 0]
Idle == [op |-> "none", stage |-> "idle", password |-> NoRecord]

ReadOff ==
  /\ passwordTable = <<>>
  /\ decryptionCache = <<>>
  /\ now = 0
  /\ reading = [Idle EXCEPT !.stage = "off"]
  /\ readLog = <<>>

DialogOff ==
  /\ wire = <<>>
  /\ importState = [isImporting |-> FALSE, status |-> "idle"]
  /\ reader = "off"

NoLink == [isActive |-> FALSE, expiresAt |-> 0, password |-> "none", passwordGroup |-> "none"]

ShareOff ==
  /\ shareableLink = NoLink
  /\ users = {}
  /\ userPassword = {}
  /\ userPasswordGroup = {}
  /\ posts = <<>>

LaterOff == ReadOff /\ DialogOff /\ ShareOff

PipelineOff ==
  /\ request = NoRequest
  /\ dbUser = "none"
  /\ handler = "none"
  /\ pc = "off"
  /\ chunks = <<>>
  /\ i = 0
  /\ allPasswords = <<>>
  /\ events = <<>>
  /\ channel = "none"
  /\ importResult = NoResult
  /\ idx = 0
  /\ encryptedPassword = <<>>
  /\ savedPasswords = <<>>
  /\ errors = <<>>
  /\ store = <<>>
  /\ response = NoResponse
  /\ modelCalls = <<>>
  /\ saveLog = <<>>

InitCipher ==
  /\ MASTER_PASSWORD_ENV \in Masters \cup {<<>>}
  /\ plain \in Strings(MaxLen)
  /\ token = <<>>
  /\ issued = <<>>
  /\ altered = Unaltered
  /\ result = Null
  /\ stage = "idle"
  /\ PipelineOff
  /\ TextOff
  /\ LaterOff

\* a call of encrypt(plain)
CallEncrypt ==
  /\ stage = "idle"
  /\ \E salt \in randomBytes(MASTER_SALT_LENGTH), iv \in randomBytes(AES_IV_LENGTH) :
       LET r == encrypt(MASTER_PASSWORD_ENV, plain, salt, iv)
       IN  /\ result' = r
           /\ token' = r.str
           /\ issued' = r.str
           /\ stage' = IF r.kind = "string" THEN "encrypted" ELSE "decrypted"
  /\ UNCHANGED <<MASTER_PASSWORD_ENV, plain, altered, pipeVars, textVars, laterVars>>

ToggleCase(c) ==
  IF c >= 97 /\ c =< 102 THEN c - 32
  ELSE IF c >= 65 /\ c =< 70 THEN c + 32
  ELSE c

\* another hex digit: the lowest bit of its value flipped
FlipDigit(c) ==
  LET v == HexVal(c) IN HexDigit(IF v % 2 = 0 THEN v + 1 ELSE v - 1)

SetField(tok, f, new) == join([split(tok, 58) EXCEPT ![f] = new], 58)

\* the stored token is changed in one place before it is read back
AlterDigit ==
  /\ stage = "encrypted"
  /\ \E f \in 1..4 :
       LET fld == split(token, 58)[f]
       IN  \E j \in 1..Len(fld), how \in {"case", "digit"} :
             /\ how = "case" => ToggleCase(fld[j]) # fld[j]
             /\ token' = SetField(token, f,
                   [fld EXCEPT ![j] = IF how = "case" THEN ToggleCase(fld[j])
                                                      ELSE FlipDigit(fld[j])])
             /\ altered' = [kind |-> how, field |-> f, pos |-> j]
  /\ stage' = "altered"
  /\ UNCHANGED <<MASTER_PASSWORD_ENV, plain, issued, result, pipeVars, textVars, laterVars>>

\* the ciphertext or the tag gets one more byte, or the tag is cut to 8 bytes
AlterLength ==
  /\ stage = "encrypted"
  /\ \/ \E f \in {3, 4} :
          /\ token' = SetField(token, f, split(token, 58)[f] \o <<48, 48>>)
          /\ altered' = [kind |-> "append", field |-> f, pos |-> 0]
     \/ /\ token' = SetField(token, 4, SubSeq(split(token, 58)[4], 1, 16))
        /\ altered' = [kind |-> "shorttag", field |-> 4, pos |-> 0]
  /\ stage' = "altered"
  /\ UNCHANGED <<MASTER_PASSWORD_ENV, plain, issued, result, pipeVars, textVars, laterVars>>

\* the token loses a field, gains a field, or two fields are merged
AlterFields ==
  /\ stage = "encrypted"
  /\ LET parts == split(token, 58)
     IN  \/ /\ token' = join(SubSeq(parts, 1, 3), 58)
            /\ altered' = [kind |-> "fields", field |-> 3, pos |-> 0]
         \/ /\ token' = token \o <<58, 48, 48>>
            /\ altered' = [kind |-> "fields", field |-> 5, pos |-> 0]
         \/ /\ token' = parts[1] \o parts[2] \o <<58>> \o parts[3] \o <<58>> \o parts[4]
            /\ altered' = [kind |-> "fields", field |-> 3, pos |-> 1]
         \/ /\ token' = <<>>
            /\ altered' = [kind |-> "fields", field |-> 1, pos |-> 0]
  /\ stage' = "altered"
  /\ UNCHANGED <<MASTER_PASSWORD_ENV, plain, issued, result, pipeVars, textVars, laterVars>>

\* the process is restarted with another master secret in its environment
ChangeMaster ==
  /\ stage = "encrypted"
  /\ \E m \in Masters :
       /\ m # MASTER_PASSWORD_ENV
       /\ MASTER_PASSWORD_ENV' = m
  /\ altered' = [kind |-> "master", field |-> 0, pos |-> 0]
  /\ stage' = "altered"
  /\ UNCHANGED <<plain, token, issued, result, pipeVars, textVars, laterVars>>

\* a call of decrypt(token)
CallDecrypt ==
  /\ stage \in {"encrypted", "altered"}
  /\ \E shortTags \in BOOLEAN :
       result' = decrypt(MASTER_PASSWORD_ENV, token, shortTags)
  /\ stage' = "decrypted"
  /\ UNCHANGED <<MASTER_PASSWORD_ENV, plain, token, issued, altered, pipeVars, textVars, laterVars>>

NextCipher ==
  \/ CallEncrypt
  \/ AlterDigit
  \/ AlterLength
  \/ AlterFields
  \/ ChangeMaster
  \/ CallDecrypt

SpecCipher == InitCipher /\ [][NextCipher]_vars

(***************************************************************************)
(* Claims about the cipher, checked under SpecCipher.                      *)
(***************************************************************************)
\* the token is read back exactly as encrypt returned it, same master secret
ReadBack ==
  /\ stage = "decrypted"
  /\ issued # <<>>
  /\ altered = Unaltered

\* no surrogate outside a high-low pair
RECURSIVE WellFormed(_)
WellFormed(s) ==
  IF s = <<>> THEN TRUE
  ELSE IF IsHighSurrogate(s[1])
    THEN Len(s) >= 2 /\ IsLowSurrogate(s[2]) /\ WellFormed(Tail(Tail(s)))
  ELSE ~IsLowSurrogate(s[1]) /\ WellFormed(Tail(s))

\* what the unaltered token decrypts to
Recovered == Str(utf8Decode(utf8Encode(plain)))

\* C2 as stated: decrypt(encrypt(p)) = p for every string p.
C2_RoundTripEveryString ==
  ReadBack => result = Str(plain)

\* C2, amended: with the master secret configured, decrypt(encrypt(p)) returns
\* exactly p for every well-formed string p, the empty string included; a
\* lone surrogate comes back as U+FFFD.
C2_RoundTripWellFormed ==
  ReadBack =>
    /\ result = Recovered
    /\ WellFormed(plain) => result = Str(plain)

C2_Witness ==
  /\ ReadBack
  /\ plain = <<>>
  /\ result = Str(<<>>)

\* the token handed to decrypt is one the claim C3 is about
AlteredAsInC3 ==
  /\ stage = "decrypted"
  /\ issued # <<>>
  /\ \/ altered.kind \in {"fields", "master"}
     \/ altered.kind \in {"case", "digit", "append", "shorttag"} /\ altered.field \in {3, 4}

\* C3 as stated: decrypt returns null for every token with a field count
\* other than four, with an altered ciphertext or tag field, or produced
\* under another master secret.
C3_NullForEveryAlteredToken ==
  AlteredAsInC3 => result = Null

\* C3, amended: with the master secret configured decrypt never throws and
\* returns null or the plaintext of the unaltered token; it returns null when
\* the field count is not four, when the ciphertext or the tag decodes to other
\* bytes (a tag cut to an accepted shorter length excepted) and under another
\* master secret; a change of letter case in a hex digit changes nothing.
C3_NullOrOriginal ==
  (stage = "decrypted" /\ issued # <<>>) =>
    /\ result.kind # "throw"
    /\ result \in {Null, Recovered}
    /\ altered.kind \in {"fields", "master", "digit", "append"} => result = Null
    /\ altered.kind = "case" => result = Recovered

C3_Witness ==
  /\ AlteredAsInC3
  /\ altered.kind = "fields"
  /\ altered.field = 5
  /\ result = Null

(***************************************************************************)
(* lib/ai-import: the chunker.  A line is given by its length; a chunk is  *)
(* the list of the lines joined into it.                                   *)
(***************************************************************************)
RECURSIVE splitLines(_, _, _, _, _, _)
\* the loop of splitTextIntoChunks over lines k.. with the chunk in progress
splitLines(lens, max, k, currentChunk, currentLength, chunksSoFar) ==
  IF k > Len(lens)
    THEN IF Len(currentChunk) > 0 THEN Append(chunksSoFar, currentChunk) ELSE chunksSoFar
  ELSE IF currentLength + lens[k] + 1 > max /\ Len(currentChunk) > 0
    THEN splitLines(lens, max, k + 1, <<lens[k]>>, lens[k] + 1,
                    Append(chunksSoFar, currentChunk))
  ELSE splitLines(lens, max, k + 1, Append(currentChunk, lens[k]),
                  currentLength + lens[k] + 1, chunksSoFar)

RECURSIVE Sum(_)
Sum(q) == IF q = <<>> THEN 0 ELSE q[1] + Sum(Tail(q))

\* length of currentChunk.join("\n")
joinedLength(lineLens) == Sum(lineLens) + Len(lineLens) - 1

\* the lengths of the chunks of a text whose lines have the lengths lens
chunkLengths(lens, max) ==
  LET groups == splitLines(lens, max, 1, <<>>, 0, <<>>)
  IN  [g \in 1..Len(groups) |-> joinedLength(groups[g])]

(***************************************************************************)
(* Inputs of Spec.                                                         *)
(***************************************************************************)
LineLengths == {0, maxChunkSize}
\* one line of more than 10MB
Oversized == <<10 * 1024 * 1024 + 1>>
\* the text of the uploaded file, of one-byte characters; <<0>> is the empty file
Contents == UNION {[1..n -> LineLengths] : n \in 1..MaxLines} \cup {Oversized}
\* the form field fileType and the extension of the file name
Uploads == {<<"csv", ".txt">>, <<"", ".pdf">>, <<"image", ".bin">>, <<"", ".txt">>}

NonObject == [isObject |-> FALSE, name |-> "", password |-> <<>>]
Candidate(n, p) == [isObject |-> TRUE, name |-> n, password |-> p]
\* the arrays the model may answer with; "" and <<>> stand for a field that
\* is missing, null or empty
ItemLists ==
  { <<>>,
    <<NonObject, Candidate("A", <<>>)>>,
    <<Candidate("", <<97>>)>>,
    <<Candidate("B", <<58>>), NonObject>> }
\* how a call of streamText ends: the stream throws, the text has no '[' or
\* no ']', the text between them is not JSON, or it is a JSON array
ModelOutcomes ==
  {[kind |-> k, items |-> <<>>] : k \in {"throws", "no_array", "unparseable"}}
    \cup {[kind |-> "array", items |-> l] : l \in ItemLists}

(***************************************************************************)
(* The frames of the progress channel.                                     *)
(***************************************************************************)
Frame(t) ==
  [type |-> t, currentChunk |-> 0, totalChunks |-> 0, currentChunkSize |-> 0,
   totalProcessed |-> 0, status |-> "", current |-> 0, total |-> 0,
   message |-> "", savedCount |-> 0, errors |-> <<>>, passwords |-> <<>>]

ProgressEvent(cur, tot, size, processed, st) ==
  [Frame("progress") EXCEPT !.currentChunk = cur, !.totalChunks = tot,
     !.currentChunkSize = size, !.totalProcessed = processed, !.status = st]

ErrorEvent(msg) == [Frame("error") EXCEPT !.message = msg]

ProcessingCompleteEvent(res) ==
  [Frame("processing_complete") EXCEPT !.totalProcessed = res.totalProcessed,
     !.passwords = res.passwords]

SavingProgressEvent(cur, tot) ==
  [Frame("saving_progress") EXCEPT !.current = cur, !.total = tot]

SuccessEvent(saved, errs) ==
  [Frame("success") EXCEPT !.savedCount = Len(saved), !.errors = errs,
     !.passwords = [k \in 1..Len(saved) |-> saved[k].name]]

(***************************************************************************)
(* app/api/import/route.ts and lib/ai-import: the request handlers.        *)
(***************************************************************************)
\* detectedType of the handlers
detectedType(fileType, ext) ==
  IF fileType = "csv" \/ ext = ".csv" THEN "csv"
  ELSE IF fileType = "pdf" \/ ext = ".pdf" THEN "pdf"
  ELSE IF fileType = "image" \/ ext \in {".jpg", ".jpeg", ".png"} THEN "image"
  ELSE "text"

\* the lines of fileContent: file.text(), or for an image the one line
\* "Image data: " followed by the base64 of the bytes
fileContent(fileType, ext, lines) ==
  IF detectedType(fileType, ext) = "image"
    THEN <<12 + 4 * ((joinedLength(lines) + 2) \div 3)>>
    ELSE lines

\* processCSVContent throws for this content: csvContent.trim().split("\n")
\* has fewer than two lines (a line of length 0 is blank, the others are not)
csvTooShort(lines) ==
  LET filled == {k \in 1..Len(lines) : lines[k] # 0}
  IN  \/ filled = {}
      \/ \A a, b \in filled : a = b

\* onProgress is the enqueueing callback of handleSSEImport, and undefined in
\* handleRegularImport; controller.enqueue throws once the stream is not open
enqueueThrows(ch) == handler = "sse" /\ ch # "open"
enqueued(evs, ev) == IF handler = "sse" THEN Append(evs, ev) ELSE evs

\* nextChunk taking the last of the chunks that are left
nextChunkFromEnd(chs, from) ==
  LET later == {j \in (from + 1)..Len(chs) : chs[j] # 0}
  IN  IF later = {} THEN 0 ELSE CHOOSE j \in later : \A k \in later : k =< j

\* the first chunk after index from that is not skipped by if (!chunk) continue
nextChunk(chs, from) ==
  LET later == {j \in (from + 1)..Len(chs) : chs[j] # 0}
  IN  IF later = {} THEN 0 ELSE Min(later)

\* validatedPasswords without the last filter on item.password && item.name
validatedPasswordsUnfiltered(parsedData) ==
  LET objects == SelectSeq(parsedData, LAMBDA item : item.isObject)
  IN  [k \in 1..Len(objects) |->
         [name     |-> IF objects[k].name # "" THEN objects[k].name ELSE "Unknown Service",
          password |-> objects[k].password]]

\* candidates of one response, validated and cleaned
validatedPasswords(parsedData) ==
  LET objects == SelectSeq(parsedData, LAMBDA item : item.isObject)
      mapped  == [k \in 1..Len(objects) |->
                    [name     |-> IF objects[k].name # "" THEN objects[k].name
                                  ELSE "Unknown Service",
                     password |-> objects[k].password]]
  IN  SelectSeq(mapped, LAMBDA item : item.password # <<>> /\ item.name # "")

\* AfterImport without controller.close() and return after the error event of
\* an empty result: the handler runs on through the empty save loop
AfterImportWithoutReturn(evs, ch, res) ==
  /\ importResult' = res
  /\ IF handler = "sse"
       THEN /\ response' = response
            /\ IF res.passwords = <<>>
                 THEN /\ events' = IF ch = "open"
                                     THEN evs \o <<ErrorEvent("No passwords found in the file"),
                                                   ProcessingCompleteEvent(res),
                                                   SuccessEvent(<<>>, <<>>)>>
                                     ELSE evs
                      /\ channel' = IF ch = "open" THEN "closed" ELSE ch
                      /\ pc' = "done"
                      /\ idx' = 0
                 ELSE /\ events' = IF ch = "open"
                                     THEN Append(evs, ProcessingCompleteEvent(res))
                                     ELSE evs
                      /\ channel' = ch
                      /\ pc' = IF ch = "open" THEN "await_encrypt" ELSE "done"
                      /\ idx' = IF ch = "open" THEN 1 ELSE 0
       ELSE /\ events' = evs
            /\ channel' = ch
            /\ IF res.passwords = <<>>
                 THEN /\ response' = [NoResponse EXCEPT !.status = 200]
                      /\ pc' = "done"
                      /\ idx' = 0
                 ELSE /\ response' = response
                      /\ pc' = "await_encrypt"
                      /\ idx' = 1

\* the handler after importPasswords returned res
AfterImport(evs, ch, res) ==
  /\ importResult' = res
  /\ IF handler = "sse"
       THEN /\ response' = response
            /\ IF res.passwords = <<>>
                 THEN /\ events' = IF ch = "open"
                                     THEN Append(evs, ErrorEvent("No passwords found in the file"))
                                     ELSE evs
                      /\ channel' = IF ch = "open" THEN "closed" ELSE ch
                      /\ pc' = "done"
                      /\ idx' = 0
                 ELSE /\ events' = IF ch = "open"
                                     THEN Append(evs, ProcessingCompleteEvent(res))
                                     ELSE evs
                      /\ channel' = ch
                      /\ pc' = IF ch = "open" THEN "await_encrypt" ELSE "done"
                      /\ idx' = IF ch = "open" THEN 1 ELSE 0
       ELSE /\ events' = evs
            /\ channel' = ch
            /\ IF res.passwords = <<>>
                 THEN /\ response' = [NoResponse EXCEPT !.status = 200]
                      /\ pc' = "done"
                      /\ idx' = 0
                 ELSE /\ response' = response
                      /\ pc' = "await_encrypt"
                      /\ idx' = 1

\* processContentWithAI ends in its catch block: it reports an error progress
\* and rethrows; importPasswords swallows the error for a CSV source and
\* records it for the other sources
ExtractionFails(evs, ch, all, at) ==
  /\ allPasswords' = all
  /\ i' = at
  /\ AfterImport(IF enqueueThrows(ch) THEN evs
                 ELSE enqueued(evs, ProgressEvent(0, 0, 0, 0, "error")),
                 ch,
                 IF detectedType(request.fileType, request.ext) = "csv"
                   THEN NoResult
                   ELSE [NoResult EXCEPT !.errorCount = 1,
                           !.errors = <<IF enqueueThrows(ch) THEN "Invalid state"
                                        ELSE "Failed to process content with AI">>])

\* processContentWithAI after chunk number from: the loop goes on to the next
\* chunk and suspends in its model call, or ends and the function returns
Advance(chs, evs, ch, all, from) ==
  LET j == nextChunk(chs, from)
  IN  IF enqueueThrows(ch) THEN ExtractionFails(evs, ch, all, from)
      ELSE IF j # 0
        THEN /\ events' = enqueued(evs, ProgressEvent(j, Len(chs), chs[j], Len(all),
                                                      "processing"))
             /\ i' = j
             /\ allPasswords' = all
             /\ pc' = "await_model"
             /\ channel' = ch
             /\ UNCHANGED <<importResult, idx, response>>
      ELSE /\ i' = Len(chs)
           /\ allPasswords' = all
           /\ AfterImport(enqueued(evs, ProgressEvent(Len(chs), Len(chs), 0, Len(all),
                                                      "complete")),
                          ch,
                          [NoResult EXCEPT !.passwords = all,
                             !.totalProcessed = Len(all), !.successCount = Len(all)])

\* file.size
fileSize(lines) == joinedLength(lines)

\* validateFile of lib/file-processor: size limit, then the extension
validateFile(size, ext) ==
  LET allowedExtensions == {".csv", ".pdf", ".jpg", ".jpeg", ".png", ".gif", ".bmp",
                            ".txt", ".md"}
  IN  IF size > 10 * 1024 * 1024
        THEN [isValid |-> FALSE, error |-> "File size must be less than 10MB"]
      ELSE IF ext \notin allowedExtensions
        THEN [isValid |-> FALSE, error |-> "Please select a valid file type"]
      ELSE [isValid |-> TRUE, error |-> ""]

Init ==
  /\ MASTER_PASSWORD_ENV \in {<<>>, <<109>>}
  /\ plain = <<>>
  /\ token = <<>>
  /\ issued = <<>>
  /\ altered = Unaltered
  /\ result = Null
  /\ stage = "off"
  /\ TextOff
  /\ LaterOff
  /\ \E u \in {"none", "clerk_1"}, sse \in BOOLEAN, f \in {"ok", "throws"},
        hasFile \in BOOLEAN, up \in Uploads, ls \in Contents :
       request = [userId |-> u, wantsSSE |-> sse, form |-> f, file |-> hasFile,
                  fileType |-> up[1], ext |-> up[2], lines |-> ls]
  /\ dbUser \in {"none", "user_1"}
  /\ handler = "none"
  /\ pc = "select"
  /\ chunks = <<>>
  /\ i = 0
  /\ allPasswords = <<>>
  /\ events = <<>>
  /\ channel = "none"
  /\ importResult = NoResult
  /\ idx = 0
  /\ encryptedPassword = <<>>
  /\ savedPasswords = <<>>
  /\ errors = <<>>
  /\ store = <<>>
  /\ response = NoResponse
  /\ modelCalls = <<>>
  /\ saveLog = <<>>

\* handleFileSelect of the import dialog: the file is validated and, when
\* valid, posted with Accept: text/event-stream
handleFileSelect ==
  /\ pc = "select"
  /\ request.file
  /\ request.wantsSSE
  /\ pc' = IF validateFile(fileSize(request.lines), request.ext).isValid
             THEN "post" ELSE "rejected"
  /\ UNCHANGED <<MASTER_PASSWORD_ENV, cipherVars, textVars, laterVars, request, dbUser, handler, chunks, i,
                 allPasswords, events, channel, importResult, idx, encryptedPassword,
                 savedPasswords, errors, store, response, modelCalls, saveLog>>

\* a caller that posts to /api/import without the dialog
DirectRequest ==
  /\ pc = "select"
  /\ pc' = "post"
  /\ UNCHANGED <<MASTER_PASSWORD_ENV, cipherVars, textVars, laterVars, request, dbUser, handler, chunks, i,
                 allPasswords, events, channel, importResult, idx, encryptedPassword,
                 savedPasswords, errors, store, response, modelCalls, saveLog>>

\* POST without if (!userId): every request reaches a handler
PostWithoutAuthentication ==
  /\ pc = "post"
  /\ handler' = IF request.wantsSSE THEN "sse" ELSE "regular"
  /\ pc' = "handler"
  /\ response' = response
  /\ UNCHANGED <<MASTER_PASSWORD_ENV, cipherVars, textVars, laterVars, request, dbUser, chunks, i, allPasswords,
                 events, channel, importResult, idx, encryptedPassword, savedPasswords,
                 errors, store, modelCalls, saveLog>>

\* POST: authentication and the choice of the handler
Post ==
  /\ pc = "post"
  /\ IF request.userId = "none"
       THEN /\ response' = [NoResponse EXCEPT !.status = 401]
            /\ pc' = "done"
            /\ handler' = handler
       ELSE /\ handler' = IF request.wantsSSE THEN "sse" ELSE "regular"
            /\ pc' = "handler"
            /\ response' = response
  /\ UNCHANGED <<MASTER_PASSWORD_ENV, cipherVars, textVars, laterVars, request, dbUser, chunks, i, allPasswords,
                 events, channel, importResult, idx, encryptedPassword, savedPasswords,
                 errors, store, modelCalls, saveLog>>

\* handleSSEImport / handleRegularImport up to the first model call: the form
\* is read, the user looked up, the content read; the stream starts, the
\* content is split and the first chunk is sent to the model
BeginImport ==
  /\ pc = "handler"
  /\ IF request.form = "throws"
       THEN /\ IF handler = "sse"
                 THEN /\ events' = <<ErrorEvent("Failed to start import")>>
                      /\ response' = [NoResponse EXCEPT !.status = 200]
                 ELSE /\ events' = events
                      /\ response' = [NoResponse EXCEPT !.status = 500]
            /\ pc' = "done"
            /\ UNCHANGED <<chunks, i, allPasswords, channel, importResult, idx>>
     ELSE IF ~request.file
       THEN /\ response' = [NoResponse EXCEPT !.status = 400]
            /\ pc' = "done"
            /\ UNCHANGED <<chunks, i, allPasswords, events, channel, importResult, idx>>
     ELSE IF dbUser = "none"
       THEN /\ response' = [NoResponse EXCEPT !.status = 404]
            /\ pc' = "done"
            /\ UNCHANGED <<chunks, i, allPasswords, events, channel, importResult, idx>>
     ELSE LET chs == chunkLengths(fileContent(request.fileType, request.ext, request.lines),
                                  maxChunkSize)
              ch  == IF handler = "sse" THEN "open" ELSE "none"
              ev0 == enqueued(<<>>, ProgressEvent(0, 0, 0, 0, "processing"))
              ev1 == enqueued(ev0, ProgressEvent(0, Len(chs), 0, 0, "processing"))
          IN  /\ chunks' = chs
              /\ Advance(chs, ev1, ch, <<>>, 0)
  /\ UNCHANGED <<MASTER_PASSWORD_ENV, cipherVars, textVars, laterVars, request, dbUser, handler,
                 encryptedPassword, savedPasswords, errors, store, modelCalls, saveLog>>

\* the model call of chunk i ends, the response is parsed, and the loop of
\* processContentWithAI runs on to its next model call or to its end
ModelResponds ==
  /\ pc = "await_model"
  /\ \E out \in ModelOutcomes :
       /\ modelCalls' = Append(modelCalls, [chunk |-> i, kind |-> out.kind,
                                            items |-> out.items])
       /\ IF out.kind = "throws"
            THEN ExtractionFails(events, channel, allPasswords, i)
          ELSE IF out.kind \in {"no_array", "unparseable"}
            THEN Advance(chunks, events, channel, allPasswords, i)
          ELSE LET all == allPasswords \o validatedPasswords(out.items)
               IN  IF enqueueThrows(channel)
                     THEN ExtractionFails(events, channel, all, i)
                     ELSE Advance(chunks,
                                  enqueued(events,
                                           ProgressEvent(i, Len(chunks), chunks[i],
                                                         Len(all), "processing")),
                                  channel, all, i)
  /\ UNCHANGED <<MASTER_PASSWORD_ENV, cipherVars, textVars, laterVars, request, dbUser, handler, chunks,
                 encryptedPassword, savedPasswords, errors, store, saveLog>>

\* the caller goes away while the handler is suspended: the stream is cancelled
Disconnect ==
  /\ handler = "sse"
  /\ channel = "open"
  /\ pc \in {"await_model", "await_encrypt", "await_create"}
  /\ channel' = "cancelled"
  /\ UNCHANGED <<MASTER_PASSWORD_ENV, cipherVars, textVars, laterVars, request, dbUser, handler, pc, chunks, i,
                 allPasswords, events, importResult, idx, encryptedPassword,
                 savedPasswords, errors, store, response, modelCalls, saveLog>>

\* NextRecord ending the run with an error event when no record was saved
NextRecordFailingWhenNoneSaved(evs, ch, saved, errs) ==
  /\ savedPasswords' = saved
  /\ errors' = errs
  /\ IF idx < Len(importResult.passwords)
       THEN /\ idx' = idx + 1
            /\ pc' = "await_encrypt"
            /\ events' = evs
            /\ channel' = ch
            /\ response' = response
       ELSE /\ idx' = idx
            /\ pc' = "done"
            /\ IF handler = "sse"
                 THEN /\ events' = IF ch # "open" THEN evs
                                   ELSE IF saved = <<>>
                                     THEN Append(evs, ErrorEvent("Import failed"))
                                   ELSE Append(evs, SuccessEvent(saved, errs))
                      /\ channel' = IF ch = "open" THEN "closed" ELSE ch
                      /\ response' = response
                 ELSE /\ events' = evs
                      /\ channel' = ch
                      /\ response' = [status |-> 200, success |-> TRUE,
                                      savedCount |-> Len(saved), errors |-> errs,
                                      passwords |-> [k \in 1..Len(saved) |-> saved[k].name]]

\* the save loop after the attempt on record idx
NextRecord(evs, ch, saved, errs) ==
  /\ savedPasswords' = saved
  /\ errors' = errs
  /\ IF idx < Len(importResult.passwords)
       THEN /\ idx' = idx + 1
            /\ pc' = "await_encrypt"
            /\ events' = evs
            /\ channel' = ch
            /\ response' = response
       ELSE /\ idx' = idx
            /\ pc' = "done"
            /\ IF handler = "sse"
                 THEN /\ events' = IF ch = "open" THEN Append(evs, SuccessEvent(saved, errs))
                                   ELSE evs
                      /\ channel' = IF ch = "open" THEN "closed" ELSE ch
                      /\ response' = response
                 ELSE /\ events' = evs
                      /\ channel' = ch
                      /\ response' = [status |-> 200, success |-> TRUE,
                                      savedCount |-> Len(saved), errors |-> errs,
                                      passwords |-> [k \in 1..Len(saved) |-> saved[k].name]]

ErrorString(name, cause) == [name |-> name, cause |-> cause]

\* the salt and the IV one call of encrypt in the save loop may draw: the two
\* samples of randomBytes, the same sample for both
saltAndIv ==
  {drawn \in randomBytes(MASTER_SALT_LENGTH) \X randomBytes(AES_IV_LENGTH) :
     drawn[1][1] = drawn[2][1]}

\* encrypt(passwordData.password) of the save loop returns or throws
EncryptDone ==
  /\ pc = "await_encrypt"
  /\ \E drawn \in saltAndIv :
       LET salt == drawn[1]
           iv == drawn[2]
           passwordData == importResult.passwords[idx]
           r == encrypt(MASTER_PASSWORD_ENV, passwordData.password, salt, iv)
       IN  IF r.kind = "throw"
             THEN /\ encryptedPassword' = <<>>
                  /\ saveLog' = Append(saveLog, [index |-> idx, outcome |-> "encrypt_throws",
                                              secretSent |-> FALSE])
                  /\ NextRecord(events, channel, savedPasswords,
                                Append(errors,
                                       ErrorString(passwordData.name,
                                                   "Master password not set in environment.")))
             ELSE /\ encryptedPassword' = r.str
                  /\ pc' = "await_create"
                  /\ UNCHANGED <<events, channel, idx, response, savedPasswords, errors,
                                 saveLog>>
  /\ UNCHANGED <<MASTER_PASSWORD_ENV, cipherVars, textVars, laterVars, request, dbUser, handler, chunks, i,
                 allPasswords, importResult, store, modelCalls>>

\* createData with the secret as extracted: password: passwordData.password
createDataPlaintext(passwordData, encrypted, userId) ==
  [name |-> passwordData.name, password |-> passwordData.password, userId |-> userId]

\* the row prisma.password.create is called with
createData(passwordData, encrypted, userId) ==
  [name |-> passwordData.name, password |-> encrypted, userId |-> userId]

\* prisma.password.create of the save loop returns the row or throws
CreateDone ==
  /\ pc = "await_create"
  /\ LET passwordData == importResult.passwords[idx]
         row == createData(passwordData, encryptedPassword, dbUser)
         sent == row.password = passwordData.password
     IN  \E created \in BOOLEAN :
           IF created
             THEN /\ store' = Append(store, row)
                  /\ saveLog' = Append(saveLog, [index |-> idx, outcome |-> "saved",
                                              secretSent |-> sent])
                  /\ IF enqueueThrows(channel)
                       THEN NextRecord(events, channel, Append(savedPasswords, row),
                                       Append(errors,
                                              ErrorString(passwordData.name, "Invalid state")))
                       ELSE NextRecord(enqueued(events,
                                                SavingProgressEvent(idx,
                                                   Len(importResult.passwords))),
                                       channel, Append(savedPasswords, row), errors)
             ELSE /\ store' = store
                  /\ saveLog' = Append(saveLog, [index |-> idx, outcome |-> "create_throws",
                                              secretSent |-> sent])
                  /\ NextRecord(events, channel, savedPasswords,
                                Append(errors, ErrorString(passwordData.name, "create failed")))
  /\ encryptedPassword' = <<>>
  /\ UNCHANGED <<MASTER_PASSWORD_ENV, cipherVars, textVars, laterVars, request, dbUser, handler, chunks, i,
                 allPasswords, importResult, modelCalls>>

Next ==
  \/ handleFileSelect
  \/ DirectRequest
  \/ Post
  \/ BeginImport
  \/ ModelResponds
  \/ Disconnect
  \/ EncryptDone
  \/ CreateDone

Spec == Init /\ [][Next]_vars

(***************************************************************************)
(* Claims about the import handlers, checked under Spec.                   *)
(***************************************************************************)
Indexes(n) == [k \in 1..n |-> k]
NamesAt(recs, ks) == [k \in 1..Len(ks) |-> recs[ks[k]].name]

\* the records the save loop works on
ToSave == importResult.passwords
\* the indexes of the records whose row was created, in the order of the calls
SavedIndexes ==
  LET done == SelectSeq(saveLog, LAMBDA e : e.outcome = "saved")
  IN  [k \in 1..Len(done) |-> done[k].index]
\* the indexes of the records for which encrypt or create threw
FailedIndexes == {saveLog[k].index : k \in {j \in 1..Len(saveLog) : saveLog[j].outcome # "saved"}}

\* C1: every row an import run has written has as password the token that
\* encrypt returned for the secret of its record, with the salt and the IV the
\* token names, and no call of create, failed or not, was made with the secret
\* itself.
C1_StoredPasswordIsToken ==
  /\ \A k \in 1..Len(saveLog) : ~saveLog[k].secretSent
  /\ Len(store) = Len(SavedIndexes)
  /\ \A k \in 1..Len(store) :
       LET passwordData == ToSave[SavedIndexes[k]]
           fields == split(store[k].password, 58)
           salt == fromHex(fields[1])
           iv == fromHex(fields[2])
       IN  /\ store[k].name = passwordData.name
           /\ store[k].password # passwordData.password
           /\ salt \in randomBytes(MASTER_SALT_LENGTH)
           /\ iv \in randomBytes(AES_IV_LENGTH)
           /\ store[k].password = encrypt(MASTER_PASSWORD_ENV, passwordData.password,
                                          salt, iv).str

C1_Witness ==
  /\ pc = "done"
  /\ Len(store) >= 2

\* the request got as far as starting the response stream
StreamRun == handler = "sse" /\ channel # "none"
Terminals == {k \in 1..Len(events) : events[k].type \in {"success", "error"}}
LastType == IF events = <<>> THEN "" ELSE events[Len(events)].type

\* C5 as stated: every streamed run emits exactly one success or error event,
\* and nothing after it.
C5_ExactlyOneTerminal ==
  /\ Terminals \subseteq {Len(events)}
  /\ (StreamRun /\ pc = "done") => Cardinality(Terminals) = 1

\* C5, amended: a streamed run never emits an event after a success or error
\* event and never emits two of them; it emits exactly one when the channel is
\* still open at the end of the run, and none when the caller has gone.
C5_OneTerminalWhileOpen ==
  /\ Terminals \subseteq {Len(events)}
  /\ (StreamRun /\ pc = "done") =>
       /\ channel \in {"closed", "cancelled"}
       /\ channel = "closed" => Cardinality(Terminals) = 1
       /\ channel = "cancelled" => Terminals = {}

C5_Witness ==
  /\ StreamRun
  /\ pc = "done"
  /\ channel = "closed"
  /\ LastType = "success"
  /\ events[Len(events)].errors # <<>>

\* the records the model calls yielded, in the order of the calls
Yield(call) == IF call.kind = "array" THEN validatedPasswords(call.items) ELSE <<>>
RECURSIVE Yields(_)
Yields(calls) == IF calls = <<>> THEN <<>> ELSE Yield(calls[1]) \o Yields(Tail(calls))
SubmittedChunks == {modelCalls[k].chunk : k \in 1..Len(modelCalls)}
NonEmptyChunks == {j \in 1..Len(chunks) : chunks[j] # 0}
ChunksWithProgress ==
  {events[k].currentChunk : k \in {j \in 1..Len(events) : events[j].type = "progress"}}

\* C6: when the model call of a chunk throws, every other chunk is still
\* submitted and gets its progress event, and the run ends with a success
\* event whose records are those of the other chunks.  (Read on a run whose
\* channel stays open and whose other chunks yield a record.)
C6_ThrowingChunkIsSkipped ==
  (StreamRun /\ pc = "done" /\ channel = "closed"
     /\ \E k \in 1..Len(modelCalls) : modelCalls[k].kind = "throws") =>
    /\ NonEmptyChunks \subseteq SubmittedChunks
    /\ NonEmptyChunks \subseteq ChunksWithProgress
    /\ Yields(modelCalls) # <<>> =>
         /\ LastType = "success"
         /\ ToSave = Yields(modelCalls)

\* the response of this call has no array, does not parse, or has no object
Unusable(call) ==
  \/ call.kind \in {"no_array", "unparseable"}
  \/ call.kind = "array" /\ SelectSeq(call.items, LAMBDA item : item.isObject) = <<>>

Succeeded == IF handler = "sse" THEN LastType = "success" ELSE response.success

\* C7: a chunk with an unusable response contributes no record, the records of
\* the chunks before it are kept, the chunks after it are still processed, and
\* the run ends in success whenever another chunk yielded a record.  (Read on
\* a run whose caller stays connected.)
C7_UnusableResponseIsSkipped ==
  (pc = "done" /\ channel # "cancelled"
     /\ \E k \in 1..Len(modelCalls) : Unusable(modelCalls[k])) =>
    /\ NonEmptyChunks \subseteq SubmittedChunks
    /\ Yields(modelCalls) # <<>> =>
         /\ Succeeded
         /\ ToSave = Yields(modelCalls)

\* the save loop has gone through all its records
SaveDone == pc = "done" /\ ToSave # <<>> /\ Len(saveLog) = Len(ToSave)

\* C8: a record whose encrypt or create fails gets one error string with its
\* name and the loop goes on; with k failing records of n the run ends with
\* the n-k other records saved, in input order, and exactly k error strings.
C8_OneErrorPerFailedRecord ==
  SaveDone =>
    LET n == Len(ToSave)
    IN  /\ [k \in 1..Len(savedPasswords) |-> savedPasswords[k].name]
             = NamesAt(ToSave, SelectSeq(Indexes(n), LAMBDA k : k \notin FailedIndexes))
        /\ [k \in 1..Len(errors) |-> errors[k].name]
             = NamesAt(ToSave, SelectSeq(Indexes(n), LAMBDA k : k \in FailedIndexes))
        /\ Len(errors) = Cardinality(FailedIndexes)

SavingProgress == SelectSeq(events, LAMBDA e : e.type = "saving_progress")

\* C9: one saving_progress event follows every save attempt, failed or not:
\* over n records exactly n of them, with current = 1, 2, ..., n in order.
\* (Read on a run whose channel stays open.)
C9_SavingProgressPerAttempt ==
  (StreamRun /\ SaveDone /\ channel = "closed") =>
    [k \in 1..Len(SavingProgress) |-> SavingProgress[k].current] = Indexes(Len(ToSave))

\* C10: over the events of one run, currentChunk of the progress events never
\* decreases and current of the saving_progress events never decreases.
C10_ProgressNeverDecreases ==
  \A a, b \in 1..Len(events) :
    (a < b /\ events[a].type = events[b].type) =>
      /\ events[a].type = "progress" => events[a].currentChunk =< events[b].currentChunk
      /\ events[a].type = "saving_progress" => events[a].current =< events[b].current

\* the request was served by handleSSEImport and its handler has returned
StreamedDone == handler = "sse" /\ pc = "done" /\ response.status \notin {400, 404}

\* C11 as stated: a streamed run ends with an error event exactly when
\* extraction returned no record or an exception escaped before the first save
\* began, and ends with a success event whenever extraction returned a record.
C11_ErrorIffNothingExtracted ==
  StreamedDone =>
    /\ LastType = "error" <=> (ToSave = <<>> \/ saveLog = <<>>)
    /\ ToSave # <<>> => LastType = "success"

\* C11, amended: a streamed run whose channel is open when the handler ends,
\* ends with an error event exactly when importPasswords returned no record,
\* and with a success event otherwise, also when no record was saved; a run
\* whose form data cannot be read answers with one error event; a run whose
\* caller has gone ends with neither event.
C11_ErrorIffNothingExtractedWhileOpen ==
  StreamedDone =>
    /\ request.form = "throws" => (channel = "none" /\ LastType = "error")
    /\ channel = "closed" => /\ LastType \in {"error", "success"}
                             /\ LastType = "error" <=> ToSave = <<>>
                             /\ LastType = "success" => Len(saveLog) = Len(ToSave)
    /\ channel = "cancelled" => LastType \notin {"error", "success"}

C11_Witness ==
  /\ StreamedDone
  /\ channel = "closed"
  /\ Len(ToSave) >= 2
  /\ savedPasswords = <<>>
  /\ LastType = "success"
  /\ events[Len(events)].savedCount = 0

\* C12: when the master secret is not set, an import run is aborted: it never
\* emits a success or processing_complete event and never answers success, it
\* hands out no ImportResult, and a streamed run whose channel is open ends
\* with one error event.
C12_MissingMasterAborts ==
  (MASTER_PASSWORD_ENV = <<>> /\ pc = "done") =>
    /\ \A k \in 1..Len(events) : events[k].type \notin {"success", "processing_complete"}
    /\ ~response.success
    /\ (StreamRun /\ channel = "closed") => (LastType = "error" /\ Cardinality(Terminals) = 1)

\* C13: when the caller disconnects during a run, and no model call throws,
\* the run still submits every chunk to the model and still attempts to save
\* every record the model calls yielded.
C13_DisconnectDoesNotStopRun ==
  (StreamRun /\ pc = "done" /\ channel = "cancelled"
     /\ \A k \in 1..Len(modelCalls) : modelCalls[k].kind # "throws") =>
    /\ NonEmptyChunks \subseteq SubmittedChunks
    /\ Len(saveLog) = Len(Yields(modelCalls))

\* an upload that is empty, larger than 10MB or of an unsupported type
InvalidUpload ==
  /\ request.file
  /\ \/ fileSize(request.lines) = 0
     \/ ~validateFile(fileSize(request.lines), request.ext).isValid

\* C14: for an empty, too large or unsupported upload no model call is made,
\* no row is written, no progress event is emitted, and the request ends
\* rejected as an error.
C14_InvalidUploadRejected ==
  InvalidUpload =>
    /\ modelCalls = <<>>
    /\ store = <<>>
    /\ \A k \in 1..Len(events) : events[k].type # "progress"
    /\ pc = "done" => (response.status >= 400 \/ LastType = "error")

\* C15: every row an import request has created is owned by the user row of
\* the authenticated caller of that request; a request without a subject, or
\* whose subject has no user row, makes no model call and no store write.
C15_RowsOwnedByCaller ==
  /\ \A k \in 1..Len(store) :
       /\ request.userId # "none"
       /\ dbUser # "none"
       /\ store[k].userId = dbUser
  /\ (request.userId = "none" \/ dbUser = "none") =>
       /\ modelCalls = <<>>
       /\ saveLog = <<>>
       /\ store = <<>>

C15_Witness ==
  /\ pc = "done"
  /\ handler = "regular"
  /\ store # <<>>
  /\ request.userId = "clerk_1"
  /\ store[1].userId = "user_1"

\* C16: for a CSV source the content is parsed by processCSVContent first and
\* the model is called only when that parsing fails: no model call is made for
\* a CSV content that has a header line and a data line.
C16_CsvParsedDirectlyFirst ==
  (detectedType(request.fileType, request.ext) = "csv" /\ ~csvTooShort(request.lines)) =>
    modelCalls = <<>>

(***************************************************************************)
(* lib/ai-import: splitTextIntoChunks on the text itself, under SpecText.  *)
(***************************************************************************)
RECURSIVE splitLoop(_, _, _, _, _, _)
\* the for loop of splitTextIntoChunks over lines k.. and the final push
splitLoop(lines, max, k, currentChunk, currentLength, chunksSoFar) ==
  IF k > Len(lines)
    THEN IF Len(currentChunk) > 0 THEN Append(chunksSoFar, join(currentChunk, 10))
         ELSE chunksSoFar
  ELSE IF currentLength + Len(lines[k]) + 1 > max /\ Len(currentChunk) > 0
    THEN splitLoop(lines, max, k + 1, <<lines[k]>>, Len(lines[k]) + 1,
                   Append(chunksSoFar, join(currentChunk, 10)))
  ELSE splitLoop(lines, max, k + 1, Append(currentChunk, lines[k]),
                 currentLength + Len(lines[k]) + 1, chunksSoFar)

\* splitTextIntoChunks returning chunks.filter(Boolean)
splitTextIntoChunksNonEmpty(text, max) ==
  SelectSeq(splitLoop(split(text, 10), max, 1, <<>>, 0, <<>>), LAMBDA c : c # <<>>)

\* splitTextIntoChunks not counting the newline of a line
splitTextIntoChunksNoNewline(text, max) ==
  splitLoop(split(text, 10), max + 2, 1, <<>>, 0, <<>>)

splitTextIntoChunks(text, max) ==
  splitLoop(split(text, 10), max, 1, <<>>, 0, <<>>)

(***************************************************************************)
(* lib/ai-import: processCSVContent, under SpecText.                       *)
(***************************************************************************)
Max(S) == CHOOSE x \in S : \A y \in S : y =< x

\* white space as String.prototype.trim removes it (ASCII)
IsSpace(c) == c \in {9, 10, 11, 12, 13, 32}
trim(str) ==
  LET inked == {k \in 1..Len(str) : ~IsSpace(str[k])}
  IN  IF inked = {} THEN <<>> ELSE SubSeq(str, Min(inked), Max(inked))
\* replace(/"/g, "")
stripQuotes(str) == SelectSeq(str, LAMBDA c : c # 34)
toLowerCase(str) == [k \in 1..Len(str) |-> IF str[k] \in 65..90 THEN str[k] + 32 ELSE str[k]]

kName == <<110, 97, 109, 101>>  \* "name"
kService == <<115, 101, 114, 118, 105, 99, 101>>  \* "service"
kTitle == <<116, 105, 116, 108, 101>>  \* "title"
kUsername == <<117, 115, 101, 114, 110, 97, 109, 101>>  \* "username"
kLogin == <<108, 111, 103, 105, 110>>  \* "login"
kUser == <<117, 115, 101, 114>>  \* "user"
kEmail == <<101, 109, 97, 105, 108>>  \* "email"
kPassword == <<112, 97, 115, 115, 119, 111, 114, 100>>  \* "password"
kPass == <<112, 97, 115, 115>>  \* "pass"
kWebsite == <<119, 101, 98, 115, 105, 116, 101>>  \* "website"
kUrl == <<117, 114, 108>>  \* "url"
kSite == <<115, 105, 116, 101>>  \* "site"
kDescription == <<100, 101, 115, 99, 114, 105, 112, 116, 105, 111, 110>>  \* "description"
kNote == <<110, 111, 116, 101>>  \* "note"
kNotes == <<110, 111, 116, 101, 115>>  \* "notes"
UnknownService == <<85, 110, 107, 110, 111, 119, 110, 32, 83, 101, 114, 118, 105, 99, 101>>  \* "Unknown Service"

RECURSIVE parseValues(_, _, _, _, _)
\* the character loop over one line: quotes toggle inQuotes and are dropped,
\* a comma outside quotes ends a value
parseValues(line, j, current, inQuotes, values) ==
  IF j > Len(line) THEN Append(values, trim(current))
  ELSE IF line[j] = 34 THEN parseValues(line, j + 1, current, ~inQuotes, values)
  ELSE IF line[j] = 44 /\ ~inQuotes
    THEN parseValues(line, j + 1, <<>>, inQuotes, Append(values, trim(current)))
  ELSE parseValues(line, j + 1, Append(current, line[j]), inQuotes, values)

\* row[key] after headers.forEach: the last non-empty value under a header
\* that is key in lower case; <<>> stands for undefined
rowValue(headers, values, key) ==
  LET at == {k \in 1..Len(headers) :
               k =< Len(values) /\ values[k] # <<>> /\ toLowerCase(headers[k]) = key}
  IN  IF at = {} THEN <<>> ELSE stripQuotes(values[Max(at)])

\* a || b || ... : the first value that is not empty
FirstOf(options) ==
  LET filled == {k \in 1..Len(options) : options[k] # <<>>}
  IN  IF filled = {} THEN <<>> ELSE options[Min(filled)]

\* the ImportedPassword made of one data line
csvPassword(headers, line) ==
  LET values == parseValues(line, 1, <<>>, FALSE, <<>>)
      row(key) == rowValue(headers, values, key)
  IN  [name        |-> FirstOf(<<row(kName), row(kService), row(kTitle), UnknownService>>),
       username    |-> FirstOf(<<row(kUsername), row(kLogin), row(kUser)>>),
       email       |-> row(kEmail),
       password    |-> FirstOf(<<row(kPassword), row(kPass)>>),
       website     |-> FirstOf(<<row(kWebsite), row(kUrl), row(kSite)>>),
       description |-> FirstOf(<<row(kDescription), row(kNote), row(kNotes)>>)]

\* processCSVContent: the passwords, or threw
processCSVContent(csvContent) ==
  LET lines == split(trim(csvContent), 10)
  IN  IF Len(lines) < 2
        THEN [passwords |-> <<>>, threw |-> TRUE]
        ELSE LET cells    == split(lines[1], 44)
                 headers  == [k \in 1..Len(cells) |-> stripQuotes(trim(cells[k]))]
                 dataRows == SelectSeq(Tail(lines), LAMBDA line : trim(line) # <<>>)
                 made     == [k \in 1..Len(dataRows) |-> csvPassword(headers, dataRows[k])]
             IN  [passwords |-> SelectSeq(made, LAMBDA password :
                                            password.password # <<>> /\ password.name # <<>>),
                  threw |-> FALSE]

\* "name,password" and "Title, \"PASS\""
CsvHeaders == {<<110, 97, 109, 101, 44, 112, 97, 115, 115, 119, 111, 114, 100>>,
               <<84, 105, 116, 108, 101, 44, 32, 34, 80, 65, 83, 83, 34>>}
Gmail == <<71, 109, 97, 105, 108>>
Yahoo == <<89, 97, 104, 111, 111>>
abc123 == <<97, 98, 99, 49, 50, 51>>
xyz789 == <<120, 121, 122, 55, 56, 57>>
missing == <<109, 105, 115, 115, 105, 110, 103>>
\* Gmail,abc123 / ,missing / Yahoo,xyz789 / an empty line / "a,b",p / x
CsvRows == {Gmail \o <<44>> \o abc123,
            <<44>> \o missing,
            Yahoo \o <<44>> \o xyz789,
            <<>>,
            <<34, 97, 44, 98, 34, 44, 112>>,
            <<120>>}
CsvTexts ==
  {join(<<h>> \o rows, 10) : h \in CsvHeaders,
                             rows \in UNION {[1..n -> CsvRows] : n \in 0..MaxRows}}

\* texts of 'a' and newline
Texts == UNION {[1..n -> {97, 10}] : n \in 0..MaxText}
ChunkSizes == (-1)..(MaxText + 1)
NoReturn == [chunks |-> <<>>, passwords |-> <<>>, threw |-> FALSE]

InitText ==
  /\ MASTER_PASSWORD_ENV = <<>>
  /\ plain = <<>>
  /\ token = <<>>
  /\ issued = <<>>
  /\ altered = Unaltered
  /\ result = Null
  /\ stage = "off"
  /\ PipelineOff
  /\ LaterOff
  /\ textArg \in Texts \cup CsvTexts
  /\ sizeArg = 0
  /\ called = "none"
  /\ returned = NoReturn

\* a call of splitTextIntoChunks(textArg, max)
CallSplitTextIntoChunks ==
  /\ called = "none"
  /\ \E max \in ChunkSizes :
       /\ sizeArg' = max
       /\ returned' = [NoReturn EXCEPT !.chunks = splitTextIntoChunks(textArg, max)]
  /\ called' = "splitTextIntoChunks"
  /\ UNCHANGED <<MASTER_PASSWORD_ENV, cipherVars, pipeVars, laterVars, textArg>>

\* a call of processCSVContent(textArg)
CallProcessCSVContent ==
  /\ called = "none"
  /\ LET r == processCSVContent(textArg)
     IN  returned' = [NoReturn EXCEPT !.passwords = r.passwords, !.threw = r.threw]
  /\ called' = "processCSVContent"
  /\ UNCHANGED <<MASTER_PASSWORD_ENV, cipherVars, pipeVars, laterVars, textArg, sizeArg>>

NextText ==
  \/ CallSplitTextIntoChunks
  \/ CallProcessCSVContent

SpecText == InitText /\ [][NextText]_vars

RECURSIVE Flatten(_)
Flatten(seqs) == IF seqs = <<>> THEN <<>> ELSE seqs[1] \o Flatten(Tail(seqs))
\* the lines of each chunk, chunk after chunk
LinesOfChunks(cs) == Flatten([k \in 1..Len(cs) |-> split(cs[k], 10)])

\* C17: the chunks splitTextIntoChunks returned, joined with a newline in
\* order, are the input text, and their lines are the lines of the text: none
\* lost, duplicated, reordered or split.
C17_ChunksJoinToText ==
  called = "splitTextIntoChunks" =>
    /\ join(returned.chunks, 10) = textArg
    /\ LinesOfChunks(returned.chunks) = split(textArg, 10)

C17_Witness ==
  /\ called = "splitTextIntoChunks"
  /\ Len(returned.chunks) >= 2
  /\ returned.chunks[1] = <<>>
  /\ \E k \in 1..Len(returned.chunks) : Len(split(returned.chunks[k], 10)) >= 2

\* C18: every chunk splitTextIntoChunks returned has at most maxChunkSize
\* characters or is one single line; a line longer than the bound is a chunk
\* by itself, whole.
C18_ChunksWithinBound ==
  called = "splitTextIntoChunks" =>
    /\ \A k \in 1..Len(returned.chunks) :
         \/ Len(returned.chunks[k]) =< sizeArg
         \/ Len(split(returned.chunks[k], 10)) = 1
    /\ \A n \in 1..Len(split(textArg, 10)) :
         LET line == split(textArg, 10)[n]
         IN  Len(line) > sizeArg =>
               \E k \in 1..Len(returned.chunks) :
                 /\ returned.chunks[k] = line
                 /\ Len(LinesOfChunks(SubSeq(returned.chunks, 1, k - 1))) = n - 1

C18_Witness ==
  /\ called = "splitTextIntoChunks"
  /\ sizeArg >= 2
  /\ \E k \in 1..Len(returned.chunks) : Len(returned.chunks[k]) > sizeArg
  /\ \E k \in 1..Len(returned.chunks) : Len(split(returned.chunks[k], 10)) >= 2

\* the chunk lengths the import handlers work with are the lengths of the
\* chunks of the text
ChunkLengthsAgree ==
  called = "splitTextIntoChunks" =>
    LET lines == split(textArg, 10)
        cs    == returned.chunks
    IN  chunkLengths([k \in 1..Len(lines) |-> Len(lines[k])], sizeArg)
          = [k \in 1..Len(cs) |-> Len(cs[k])]

\* name,password / Gmail,abc123 / ,missing / Yahoo,xyz789
CsvExample ==
  join(<<kName \o <<44>> \o kPassword, Gmail \o <<44>> \o abc123, <<44>> \o missing,
         Yahoo \o <<44>> \o xyz789>>, 10)
NamesAndPasswords(ps) ==
  [k \in 1..Len(ps) |-> [name |-> ps[k].name, password |-> ps[k].password]]

\* C19: processCSVContent drops every data row whose name field is blank, also
\* when it has a password: no returned record stands for such a row, and for
\* the example text it returns exactly Gmail/abc123 and Yahoo/xyz789.
C19_BlankNameRowsDropped ==
  called = "processCSVContent" =>
    /\ \A k \in 1..Len(returned.passwords) : returned.passwords[k].name # UnknownService
    /\ textArg = CsvExample =>
         NamesAndPasswords(returned.passwords)
           = <<[name |-> Gmail, password |-> abc123], [name |-> Yahoo, password |-> xyz789]>>

\* the positions in events of the progress events about a chunk, and of the
\* progress event with status complete
ChunkProgress == {k \in 1..Len(events) : events[k].type = "progress"
                                          /\ events[k].status = "processing"
                                          /\ events[k].currentChunk >= 1}
CompleteProgress == {k \in 1..Len(events) : events[k].type = "progress"
                                             /\ events[k].status = "complete"}
Saving == pc \in {"await_encrypt", "await_create"}

\* C20: the model calls of a run are made one at a time in index order: while
\* the call of chunk i is pending every earlier chunk has had its call and all
\* its progress events, and no later chunk has had either; the saves are made
\* one at a time in record order, after all model calls, and in a streamed run
\* after the progress event with status complete.
C20_OneCallAndOneSaveAtATime ==
  /\ \A a, b \in 1..Len(modelCalls) : a < b => modelCalls[a].chunk < modelCalls[b].chunk
  /\ \A a, b \in ChunkProgress : a < b => events[a].currentChunk =< events[b].currentChunk
  /\ pc = "await_model" =>
       /\ chunks[i] # 0
       /\ SubmittedChunks = {j \in 1..(i - 1) : chunks[j] # 0}
       /\ \A k \in ChunkProgress : events[k].currentChunk =< i
       /\ handler = "sse" => (events[Len(events)].currentChunk = i /\ CompleteProgress = {})
       /\ saveLog = <<>>
  /\ \A k \in 1..Len(saveLog) : saveLog[k].index = k
  /\ Saving => idx = Len(saveLog) + 1
  /\ (Saving \/ saveLog # <<>>) =>
       /\ SubmittedChunks = NonEmptyChunks
       /\ handler = "sse" =>
            /\ Cardinality(CompleteProgress) = 1
            /\ \A k \in 1..Len(events) :
                 events[k].type = "saving_progress" => \A c \in CompleteProgress : c < k

C20_Witness ==
  /\ StreamRun
  /\ pc = "await_create"
  /\ Len(modelCalls) >= 2
  /\ store # <<>>
  /\ Len(SavingProgress) >= 1

\* the progress events about chunk c, in order
ProgressOfChunk(c) ==
  SelectSeq(events, LAMBDA e : e.type = "progress" /\ e.status = "processing"
                                 /\ e.currentChunk = c)

\* C21: once the model call of a chunk has ended without throwing, whatever
\* the response was, a progress event with that chunk as currentChunk and the
\* number of records accumulated so far as totalProcessed follows the one that
\* announced the chunk.  (Read on a run whose caller stays connected.)
C21_ProgressAfterEveryChunk ==
  (StreamRun /\ channel # "cancelled") =>
    \A k \in 1..Len(modelCalls) :
      modelCalls[k].kind # "throws" =>
        LET about == ProgressOfChunk(modelCalls[k].chunk)
        IN  /\ Len(about) = 2
            /\ about[2].totalProcessed = Len(Yields(SubSeq(modelCalls, 1, k)))

\* the candidates of the answers so far that are objects with a name and a
\* password, in the order of the calls
RECURSIVE NamedCandidates(_)
NamedCandidates(calls) ==
  IF calls = <<>> THEN <<>>
  ELSE SelectSeq(calls[1].items,
                 LAMBDA item : item.isObject /\ item.name # "" /\ item.password # <<>>)
         \o NamedCandidates(Tail(calls))

\* C22: a candidate object without a name is dropped during AI extraction:
\* the accumulated records are the named candidates with a password, and no
\* record carries the default name "Unknown Service".
C22_NamelessCandidateDropped ==
  /\ \A k \in 1..Len(allPasswords) : allPasswords[k].name # "Unknown Service"
  /\ Len(allPasswords) =< Len(NamedCandidates(modelCalls))

\* the passwords of the candidates so far that are objects with a password
RECURSIVE SecretsOfCandidates(_)
SecretsOfCandidates(calls) ==
  IF calls = <<>> THEN <<>>
  ELSE LET kept == SelectSeq(calls[1].items,
                             LAMBDA item : item.isObject /\ item.password # <<>>)
       IN  [k \in 1..Len(kept) |-> kept[k].password] \o SecretsOfCandidates(Tail(calls))
Complete(records) ==
  \A k \in 1..Len(records) : records[k].name # "" /\ records[k].password # <<>>

\* C23: every accumulated record, every record of the returned ImportResult
\* and every record the save loop works on has a name and a secret; the
\* records are the object candidates with a password, in order, so that no
\* other candidate reaches the save loop.
C23_RecordsHaveNameAndSecret ==
  /\ Complete(allPasswords)
  /\ Complete(importResult.passwords)
  /\ [k \in 1..Len(allPasswords) |-> allPasswords[k].password]
       = SecretsOfCandidates(modelCalls)
  /\ importResult.passwords \in {<<>>, allPasswords}
  /\ \A k \in 1..Len(saveLog) : saveLog[k].index \in 1..Len(importResult.passwords)
  /\ \A k \in 1..Len(store) : store[k].name # ""

C23_Witness ==
  /\ pc = "await_create"
  /\ Len(importResult.passwords) >= 2
  /\ \E k \in 1..Len(modelCalls) :
       \E n \in 1..Len(modelCalls[k].items) :
         modelCalls[k].items[n].isObject /\ modelCalls[k].items[n].password = <<>>
  /\ \E k \in 1..Len(modelCalls) :
       \E n \in 1..Len(modelCalls[k].items) : ~modelCalls[k].items[n].isObject

\* C24: splitTextIntoChunks applied to the empty string returns no chunk.
C24_EmptyTextNoChunks ==
  (called = "splitTextIntoChunks" /\ textArg = <<>>) => returned.chunks = <<>>

(***************************************************************************)
(* SpecRead: the read path.  Records are created (POST /api/passwords),    *)
(* updated (PUT, PATCH /api/passwords/[passwordId]) and read (GET, and the *)
(* answer of PUT) through transformPasswordData and its decryptionCache.   *)
(* One request that reads is in flight at a time; it is suspended at its   *)
(* awaits, where creates, updates and the clock go on.                     *)
(***************************************************************************)
MaxClock == 1
MaxReads == 2

\* the ids the store gives its rows: "p", "q"
RecordIds == {<<112>>, <<113>>}
\* the secrets of the request bodies: "", "a", "b"
Secrets == {<<>>, <<97>>, <<98>>}
\* the salt and IV of the writes: one sample of randomBytes is enough where
\* tokens are only read back
writeSaltAndIv == {drawn \in saltAndIv : drawn[1][1] = 171}
\* body.password of a PATCH that does not name the password
Undefined == <<0>>

RECURSIVE decimal(_)
\* a number in a template literal
decimal(n) == IF n < 10 THEN <<48 + n>> ELSE decimal(n \div 10) \o <<48 + (n % 10)>>

\* `${password.id}-${password.updatedAt.getTime()}`
cacheKey(password) == password.id \o <<45>> \o decimal(password.updatedAt)

\* decryptedPassword || ""
orEmpty(decryptedPassword) ==
  IF decryptedPassword.kind = "string" THEN decryptedPassword.str ELSE <<>>

\* if (decryptedPassword) decryptionCache.set(cacheKey, decryptedPassword)
cacheSet(cache, key, decryptedPassword) ==
  IF decryptedPassword.kind = "string" /\ decryptedPassword.str # <<>>
    THEN [k \in DOMAIN cache \cup {key} |->
            IF k = key THEN decryptedPassword.str ELSE cache[k]]
    ELSE cache

\* rows written by an earlier process, under either master secret
EarlierRows(id) ==
  {[id |-> id, password |-> encrypt(m, <<97>>, drawn[1], drawn[2]).str, updatedAt |-> 0] :
     m \in Masters, drawn \in writeSaltAndIv}

InitRead ==
  /\ MASTER_PASSWORD_ENV \in Masters \cup {<<>>}
  /\ plain = <<>>
  /\ token = <<>>
  /\ issued = <<>>
  /\ altered = Unaltered
  /\ result = Null
  /\ stage = "off"
  /\ PipelineOff
  /\ TextOff
  /\ DialogOff
  /\ ShareOff
  /\ passwordTable \in {r \in [RecordIds -> {NoRecord} \cup UNION {EarlierRows(id) : id \in RecordIds}] :
                 \A id \in RecordIds : r[id] = NoRecord \/ r[id].id = id}
  /\ decryptionCache = <<>>
  /\ now = 0
  /\ reading = Idle
  /\ readLog = <<>>

\* a millisecond passes
Tick ==
  /\ now < MaxClock
  /\ now' = now + 1
  /\ UNCHANGED <<MASTER_PASSWORD_ENV, cipherVars, pipeVars, textVars, dialogVars, shareVars,
                 passwordTable, decryptionCache, reading, readLog>>

\* prisma.password.update: the row with the data written and updatedAt set
update(row, data, t) ==
  [row EXCEPT !.password = IF data = Undefined THEN @ ELSE data, !.updatedAt = t]

\* POST /api/passwords: encrypt, then prisma.password.create
CreatePassword ==
  /\ MASTER_PASSWORD_ENV # <<>>
  /\ \E id \in RecordIds, password \in Secrets, drawn \in writeSaltAndIv :
       /\ passwordTable[id] = NoRecord
       /\ passwordTable' = [passwordTable EXCEPT ![id] =
                     [id |-> id,
                      password |-> encrypt(MASTER_PASSWORD_ENV, password,
                                           drawn[1], drawn[2]).str,
                      updatedAt |-> now]]
  /\ UNCHANGED <<MASTER_PASSWORD_ENV, cipherVars, pipeVars, textVars, dialogVars, shareVars,
                 decryptionCache, now, reading, readLog>>

\* PUT: encrypt, prisma.password.update, then transformPasswordData of the
\* row the update returned
PutUpdate ==
  /\ MASTER_PASSWORD_ENV # <<>>
  /\ reading = Idle
  /\ Len(readLog) < MaxReads
  /\ \E id \in RecordIds, password \in Secrets, drawn \in writeSaltAndIv :
       /\ passwordTable[id] # NoRecord
       /\ LET encryptedPassword_ == encrypt(MASTER_PASSWORD_ENV, password,
                                             drawn[1], drawn[2]).str
              updatedPassword == update(passwordTable[id], encryptedPassword_, now)
          IN  /\ passwordTable' = [passwordTable EXCEPT ![id] = updatedPassword]
              /\ reading' = [op |-> "PUT", stage |-> "found", password |-> updatedPassword]
  /\ UNCHANGED <<MASTER_PASSWORD_ENV, cipherVars, pipeVars, textVars, dialogVars, shareVars,
                 decryptionCache, now, readLog>>

\* PATCH: the password is encrypted and written when body.password is truthy
Patch ==
  /\ \E id \in RecordIds, password \in Secrets \cup {Undefined}, drawn \in writeSaltAndIv :
       /\ passwordTable[id] # NoRecord
       /\ password \in {Undefined, <<>>} \/ MASTER_PASSWORD_ENV # <<>>
       /\ LET data == IF password \in {Undefined, <<>>} THEN Undefined
                      ELSE encrypt(MASTER_PASSWORD_ENV, password, drawn[1], drawn[2]).str
          IN  passwordTable' = [passwordTable EXCEPT ![id] = update(passwordTable[id], data, now)]
  /\ UNCHANGED <<MASTER_PASSWORD_ENV, cipherVars, pipeVars, textVars, dialogVars, shareVars,
                 decryptionCache, now, reading, readLog>>

\* GET: prisma.password.findUnique finds the row
GetFind ==
  /\ reading = Idle
  /\ Len(readLog) < MaxReads
  /\ \E id \in RecordIds :
       /\ passwordTable[id] # NoRecord
       /\ reading' = [op |-> "GET", stage |-> "found", password |-> passwordTable[id]]
  /\ UNCHANGED <<MASTER_PASSWORD_ENV, cipherVars, pipeVars, textVars, dialogVars, shareVars,
                 passwordTable, decryptionCache, now, readLog>>

Returned(password, value, fromCache) ==
  [id |-> password.id, password |-> password.password, updatedAt |-> password.updatedAt,
   value |-> value, fromCache |-> fromCache]

\* transformPasswordData up to its await: the cache is asked first
transformPasswordData ==
  /\ reading.stage = "found"
  /\ LET key == cacheKey(reading.password)
     IN  IF key \in DOMAIN decryptionCache
           THEN /\ readLog' = Append(readLog,
                                Returned(reading.password, Str(decryptionCache[key]), TRUE))
                /\ reading' = Idle
           ELSE /\ reading' = [reading EXCEPT !.stage = "decrypting"]
                /\ readLog' = readLog
  /\ UNCHANGED <<MASTER_PASSWORD_ENV, cipherVars, pipeVars, textVars, dialogVars, shareVars,
                 passwordTable, decryptionCache, now>>

\* transformPasswordData after decrypt settled
Decrypted ==
  /\ reading.stage = "decrypting"
  /\ \E shortTags \in BOOLEAN :
       LET decryptedPassword == decrypt(MASTER_PASSWORD_ENV, reading.password.password,
                                        shortTags)
       IN  IF decryptedPassword = Throw
             THEN /\ readLog' = Append(readLog, Returned(reading.password, Throw, FALSE))
                  /\ decryptionCache' = decryptionCache
             ELSE /\ decryptionCache' = cacheSet(decryptionCache,
                                                  cacheKey(reading.password),
                                                  decryptedPassword)
                  /\ readLog' = Append(readLog,
                                  Returned(reading.password,
                                           Str(orEmpty(decryptedPassword)), FALSE))
  /\ reading' = Idle
  /\ UNCHANGED <<MASTER_PASSWORD_ENV, cipherVars, pipeVars, textVars, dialogVars, shareVars, passwordTable, now>>

NextRead ==
  \/ Tick
  \/ CreatePassword
  \/ PutUpdate
  \/ Patch
  \/ GetFind
  \/ transformPasswordData
  \/ Decrypted

SpecRead == InitRead /\ [][NextRead]_vars

\* what decrypt gives for the token of the k-th record read
DecryptOf(k) == decrypt(MASTER_PASSWORD_ENV, readLog[k].password, FALSE)

\* C25: the value returned for a record whose token fails to decrypt
\* differs from the value returned for a record whose secret decrypts to
\* the empty string.
C25_FailureDistinctFromEmpty ==
  \A j, k \in 1..Len(readLog) :
    (DecryptOf(j) = Null /\ DecryptOf(k) = Str(<<>>)) =>
      readLog[j].value # readLog[k].value

\* C28: transformPasswordData returns the plaintext that decrypt gives for
\* the token held by the record it is called on, never one cached from an
\* earlier token of the same id; the cache answers only for a record of the
\* same id and updatedAt as the one whose decryption it holds; and a failed
\* decryption is never cached.
C28_CacheNeverStale ==
  /\ \A k \in 1..Len(readLog) :
       /\ (readLog[k].value.kind = "string" /\ DecryptOf(k).kind = "string")
            => readLog[k].value.str = DecryptOf(k).str
       /\ readLog[k].fromCache =>
            \E j \in 1..(k - 1) :
              /\ ~readLog[j].fromCache
              /\ readLog[j].id = readLog[k].id
              /\ readLog[j].updatedAt = readLog[k].updatedAt
              /\ readLog[j].value = readLog[k].value
  /\ \A key \in DOMAIN decryptionCache :
       \E k \in 1..Len(readLog) :
         /\ cacheKey(readLog[k]) = key
         /\ DecryptOf(k) = Str(decryptionCache[key])

\* cross-check: the same holds when the first conjunct is asked only of
\* answers that did not come from the cache
CacheKeyedAndFailuresNotCached ==
  /\ \A k \in 1..Len(readLog) :
       /\ (~readLog[k].fromCache /\ readLog[k].value.kind = "string"
             /\ DecryptOf(k).kind = "string")
            => readLog[k].value.str = DecryptOf(k).str
       /\ readLog[k].fromCache =>
            \E j \in 1..(k - 1) :
              /\ ~readLog[j].fromCache
              /\ readLog[j].id = readLog[k].id
              /\ readLog[j].updatedAt = readLog[k].updatedAt
              /\ readLog[j].value = readLog[k].value
  /\ \A key \in DOMAIN decryptionCache :
       \E k \in 1..Len(readLog) :
         /\ cacheKey(readLog[k]) = key
         /\ DecryptOf(k) = Str(decryptionCache[key])

\* C26: when the save loop of a streamed run is through, every extracted
\* record is in the saved list or named by one error string, never both:
\* the saved rows are those of the records whose row was created, the error
\* strings are as many as the records whose encrypt or create threw, and
\* together they are as many as the extracted records.
C26_EachRecordCountedOnce ==
  (handler = "sse" /\ SaveDone) =>
    /\ Len(savedPasswords) = Len(SavedIndexes)
    /\ Len(errors) = Len(SelectSeq(saveLog, LAMBDA e : e.outcome # "saved"))
    /\ Len(savedPasswords) + Len(errors) = Len(ToSave)

\* a run of either handler that got as far as importPasswords and is through
Imported ==
  /\ pc = "done"
  /\ handler \in {"sse", "regular"}
  /\ response.status \in {0, 200}
  /\ handler = "sse" => channel # "none"
\* the model answered every chunk it is asked about when no answer is lost
ModelThrew == \E k \in 1..Len(modelCalls) : modelCalls[k].kind = "throws"
AllAnswered == ModelThrew \/ SubmittedChunks = NonEmptyChunks
\* what handleRegularImport gets from importPasswords for these answers
RegularPasswords == IF ModelThrew THEN <<>> ELSE Yields(modelCalls)
\* the message of the error encrypt or create threw
Cause(outcome) ==
  IF outcome = "create_throws" THEN "create failed"
  ELSE "Master password not set in environment."
\* what handleRegularImport reports for these answers and store outcomes
RegularErrors ==
  LET failed == SelectSeq(saveLog, LAMBDA e : e.outcome # "saved")
  IN  [k \in 1..Len(failed) |->
         ErrorString(RegularPasswords[failed[k].index].name, Cause(failed[k].outcome))]

\* C27: for the same file, model answers and store outcomes the two handlers
\* write the same records and report the same savedCount and error strings,
\* and the streamed handler ends with an error event for zero records exactly
\* when the other answers success: false.  (Read on a finished run whose
\* history names an answer for every chunk and an outcome for every record:
\* the run's result is what handleRegularImport makes of that history.)
C27_HandlersAgree ==
  (Imported /\ AllAnswered /\ Len(saveLog) = Len(RegularPasswords)) =>
    /\ [k \in 1..Len(store) |-> store[k].name] = NamesAt(RegularPasswords, SavedIndexes)
    /\ Len(savedPasswords) = Len(SavedIndexes)
    /\ errors = RegularErrors
    /\ handler = "regular" => (response.success = FALSE <=> RegularPasswords = <<>>)
    /\ handler = "sse" => ((LastType = "error" /\ ToSave = <<>>) <=> RegularPasswords = <<>>)

(***************************************************************************)
(* SpecDialog: the import dialog reading the response stream.  The body is *)
(* the text of the frames the handler enqueued; reader.read() hands it on  *)
(* in pieces cut anywhere.  The JSON text of an event is written "{t}",    *)
(* t one letter for the event's type (and, for a progress event, whether   *)
(* its status is complete): as with the JSON of an object, no proper       *)
(* prefix or suffix of it parses.                                          *)
(***************************************************************************)
\* "data: "
dataPrefix == <<100, 97, 116, 97, 58, 32>>
\* the letters: progress (processing), progress (complete),
\* processing_complete, saving_progress, success, error
EventLetters == {112, 113, 99, 118, 115, 101}
\* encoder.encode(`data: ${JSON.stringify(event)}\n\n`)
frame(letter) == dataPrefix \o <<123, letter, 125>> \o <<10, 10>>
RECURSIVE frames(_)
frames(letters) == IF letters = <<>> THEN <<>> ELSE frame(letters[1]) \o frames(Tail(letters))

\* the bodies handleSSEImport sends: no record found; one chunk and one
\* saved record; the start of the import failed
Bodies == {frames(<<112, 112, 112, 113, 101>>),
           frames(<<112, 112, 112, 113, 99, 118, 115>>),
           frames(<<101>>)}

\* line.startsWith(prefix)
startsWith(line, prefix) ==
  Len(line) >= Len(prefix) /\ SubSeq(line, 1, Len(prefix)) = prefix

\* JSON.parse(text): the letter of the event, 0 when it throws
JSONparse(text) ==
  IF Len(text) = 3 /\ text[1] = 123 /\ text[3] = 125 /\ text[2] \in EventLetters
    THEN text[2] ELSE 0

\* handleSSEEvent: importState after the event
handleSSEEvent(state, letter) ==
  IF letter = 112 THEN [state EXCEPT !.status = "processing"]
  ELSE IF letter \in {113, 99} THEN [state EXCEPT !.status = "saving"]
  ELSE IF letter = 115 THEN [isImporting |-> FALSE, status |-> "complete"]
  ELSE IF letter = 101 THEN [isImporting |-> FALSE, status |-> "error"]
  ELSE state

RECURSIVE handleLines(_, _)
\* the for loop over the lines of one chunk
handleLines(state, lines) ==
  IF lines = <<>> THEN state
  ELSE LET line == lines[1]
           eventData == IF startsWith(line, dataPrefix)
                          THEN JSONparse(SubSeq(line, 7, Len(line))) ELSE 0
       IN  handleLines(IF eventData # 0 THEN handleSSEEvent(state, eventData) ELSE state,
                       Tail(lines))

\* handleFileSelect has reset the state and fetch has answered with a body
InitDialog ==
  /\ MASTER_PASSWORD_ENV = <<>>
  /\ plain = <<>>
  /\ token = <<>>
  /\ issued = <<>>
  /\ altered = Unaltered
  /\ result = Null
  /\ stage = "off"
  /\ PipelineOff
  /\ TextOff
  /\ ReadOff
  /\ ShareOff
  /\ wire \in Bodies
  /\ importState = [isImporting |-> TRUE, status |-> "processing"]
  /\ reader = "reading"

\* reader.read() resolves with a piece of the body
ReadChunk ==
  /\ reader = "reading"
  /\ \E n \in 1..Len(wire) :
       LET chunk == SubSeq(wire, 1, n)
       IN  /\ importState' = handleLines(importState, split(chunk, 10))
           /\ wire' = SubSeq(wire, n + 1, Len(wire))
  /\ reader' = reader
  /\ UNCHANGED <<MASTER_PASSWORD_ENV, cipherVars, pipeVars, textVars, readVars, shareVars>>

\* reader.read() resolves with done: the loop ends
ReadDone ==
  /\ reader = "reading"
  /\ wire = <<>>
  /\ reader' = "ended"
  /\ UNCHANGED <<MASTER_PASSWORD_ENV, cipherVars, pipeVars, textVars, readVars, shareVars,
                 wire, importState>>

\* reader.read() rejects: the catch block of handleFileSelect
ReadFails ==
  /\ reader = "reading"
  /\ reader' = "failed"
  /\ importState' = [isImporting |-> FALSE, status |-> "error"]
  /\ UNCHANGED <<MASTER_PASSWORD_ENV, cipherVars, pipeVars, textVars, readVars, shareVars,
                 wire>>

NextDialog ==
  \/ ReadChunk
  \/ ReadDone
  \/ ReadFails

SpecDialog == InitDialog /\ [][NextDialog]_vars

\* C29: once the response stream has ended, isImporting is false and status
\* is complete or error, also when a frame was split across two reads or did
\* not parse.
C29_DialogSettledWhenStreamEnds ==
  reader = "ended" =>
    /\ ~importState.isImporting
    /\ importState.status \in {"complete", "error"}

(***************************************************************************)
(* SpecShare: POST on a share link, /api/share/[token].  The repository    *)
(* holds the handler twice: in part_009, which loads the link with its     *)
(* password only, and in app/api/share/[token]/route.ts, which loads the   *)
(* password group as well.  Requests run concurrently and are suspended at *)
(* each await.                                                             *)
(***************************************************************************)
MaxPosts == 2

ClerkIds == {"clerk_1", "clerk_2"}
Routes == {"part_009", "share/[token]"}
\* new Date(), and the expiresAt of a link: 0 for null, a past and a later date
today == 5
ExpiryDates == {0, 1, 9}
Links ==
  {[isActive |-> a, expiresAt |-> e, password |-> "password_1", passwordGroup |-> "none"] :
     a \in BOOLEAN, e \in ExpiryDates}
  \cup
  {[isActive |-> a, expiresAt |-> e, password |-> "none", passwordGroup |-> "group_1"] :
     a \in BOOLEAN, e \in ExpiryDates}

InitShare ==
  /\ MASTER_PASSWORD_ENV = <<>>
  /\ plain = <<>>
  /\ token = <<>>
  /\ issued = <<>>
  /\ altered = Unaltered
  /\ result = Null
  /\ stage = "off"
  /\ PipelineOff
  /\ TextOff
  /\ ReadOff
  /\ DialogOff
  /\ shareableLink \in Links \cup {NoLink}
  /\ users \in SUBSET ClerkIds
  /\ userPassword \in SUBSET {<<u, "password_1">> : u \in ClerkIds}
  /\ userPasswordGroup = {}
  /\ posts = <<>>

\* shareableLink.expiresAt && shareableLink.expiresAt < new Date()
expired(link) == link.expiresAt # 0 /\ link.expiresAt < today

\* currentUser(): Clerk's user of the session auth() has found
currentUser(userId) == userId

\* the request k answers with status and ends
Respond(k, status) == posts' = [posts EXCEPT ![k].pc = "done", ![k].status = status]
Goto(k, pc_) == posts' = [posts EXCEPT ![k].pc = pc_]

shareOthers == <<MASTER_PASSWORD_ENV, cipherVars, pipeVars, textVars, readVars, dialogVars>>

\* a request arrives: auth()
SharePost ==
  /\ Len(posts) < MaxPosts
  /\ \E route \in Routes, userId \in ClerkIds \cup {"none"} :
       posts' = Append(posts,
                  [route |-> route, userId |-> userId,
                   pc |-> IF userId = "none" THEN "done" ELSE "find_link",
                   status |-> IF userId = "none" THEN 401 ELSE 0,
                   existed |-> <<userId, shareableLink.password>> \in userPassword,
                   created |-> 0])
  /\ UNCHANGED <<shareOthers, shareableLink, users, userPassword, userPasswordGroup>>

\* prisma.shareableLink.findUnique({token, isActive: true}) and the expiry check
FindLink ==
  /\ \E k \in 1..Len(posts) :
       /\ posts[k].pc = "find_link"
       /\ IF shareableLink = NoLink \/ ~shareableLink.isActive THEN Respond(k, 404)
          ELSE IF expired(shareableLink) THEN Respond(k, 410)
          ELSE Goto(k, "find_user")
  /\ UNCHANGED <<shareOthers, shareableLink, users, userPassword, userPasswordGroup>>

\* prisma.user.findUnique({clerkId}) and, without a row, currentUser()
FindUser ==
  /\ \E k \in 1..Len(posts) :
       /\ posts[k].pc = "find_user"
       /\ IF posts[k].userId \in users THEN Goto(k, "find_import")
          ELSE IF currentUser(posts[k].userId) = "none" THEN Respond(k, 400)
          ELSE Goto(k, "create_user")
  /\ UNCHANGED <<shareOthers, shareableLink, users, userPassword, userPasswordGroup>>

\* prisma.user.create: clerkId is unique
CreateUser ==
  /\ \E k \in 1..Len(posts) :
       /\ posts[k].pc = "create_user"
       /\ IF posts[k].userId \in users
            THEN /\ Respond(k, 500)
                 /\ users' = users
            ELSE /\ Goto(k, "find_import")
                 /\ users' = users \cup {posts[k].userId}
  /\ UNCHANGED <<shareOthers, shareableLink, userPassword, userPasswordGroup>>

\* the first block: if (shareableLink.password), prisma.userPassword.findUnique
FindImport ==
  /\ \E k \in 1..Len(posts) :
       /\ posts[k].pc = "find_import"
       /\ IF shareableLink.password = "none" THEN Goto(k, "find_second")
          ELSE IF <<posts[k].userId, shareableLink.password>> \in userPassword
            THEN Respond(k, 409)
          ELSE Goto(k, "create_import")
  /\ UNCHANGED <<shareOthers, shareableLink, users, userPassword, userPasswordGroup>>

\* the first block: prisma.userPassword.create; (userId, passwordId) is unique
CreateImport ==
  /\ \E k \in 1..Len(posts) :
       /\ posts[k].pc = "create_import"
       /\ LET row == <<posts[k].userId, shareableLink.password>>
          IN  IF row \in userPassword
                THEN /\ Respond(k, 500)
                     /\ userPassword' = userPassword
                ELSE /\ posts' = [posts EXCEPT ![k].pc = "find_second",
                                               ![k].created = @ + 1]
                     /\ userPassword' = userPassword \cup {row}
  /\ UNCHANGED <<shareOthers, shareableLink, users, userPasswordGroup>>

\* the link as the route loaded it: part_009 includes the password only
loaded(route, link) ==
  IF route = "part_009" THEN [link EXCEPT !.passwordGroup = "none"] ELSE link

\* the second block: in part_009 again if (shareableLink.password) with
\* prisma.userPassword.findUnique, in share/[token] if
\* (shareableLink.passwordGroup) with prisma.userPasswordGroup.findUnique
FindSecond ==
  /\ \E k \in 1..Len(posts) :
       /\ posts[k].pc = "find_second"
       /\ LET link == loaded(posts[k].route, shareableLink)
          IN  IF posts[k].route = "part_009"
                THEN IF link.password = "none" THEN Respond(k, 201)
                     ELSE IF <<posts[k].userId, link.password>> \in userPassword
                       THEN Respond(k, 409)
                     ELSE Goto(k, "create_second")
                ELSE IF link.passwordGroup = "none" THEN Respond(k, 201)
                     ELSE IF <<posts[k].userId, link.passwordGroup>> \in userPasswordGroup
                       THEN Respond(k, 409)
                     ELSE Goto(k, "create_second")
  /\ UNCHANGED <<shareOthers, shareableLink, users, userPassword, userPasswordGroup>>

\* the second block: the create, then the 201 answer
CreateSecond ==
  /\ \E k \in 1..Len(posts) :
       /\ posts[k].pc = "create_second"
       /\ IF posts[k].route = "part_009"
            THEN LET row == <<posts[k].userId, shareableLink.password>>
                 IN  /\ userPasswordGroup' = userPasswordGroup
                     /\ IF row \in userPassword
                          THEN /\ Respond(k, 500)
                               /\ userPassword' = userPassword
                          ELSE /\ posts' = [posts EXCEPT ![k].pc = "done",
                                                         ![k].status = 201,
                                                         ![k].created = @ + 1]
                               /\ userPassword' = userPassword \cup {row}
            ELSE LET row == <<posts[k].userId, shareableLink.passwordGroup>>
                 IN  /\ userPassword' = userPassword
                     /\ IF row \in userPasswordGroup
                          THEN /\ Respond(k, 500)
                               /\ userPasswordGroup' = userPasswordGroup
                          ELSE /\ Respond(k, 201)
                               /\ userPasswordGroup' = userPasswordGroup \cup {row}
  /\ UNCHANGED <<shareOthers, shareableLink, users>>

NextShare ==
  \/ SharePost
  \/ FindLink
  \/ FindUser
  \/ CreateUser
  \/ FindImport
  \/ CreateImport
  \/ FindSecond
  \/ CreateSecond

SpecShare == InitShare /\ [][NextShare]_vars

\* a finished request of a signed-in user on an active, unexpired link of a
\* password
PasswordImport(k) ==
  /\ posts[k].pc = "done"
  /\ posts[k].userId # "none"
  /\ shareableLink # NoLink
  /\ shareableLink.isActive
  /\ ~expired(shareableLink)
  /\ shareableLink.password # "none"

\* C30: a signed-in user's POST on an active, unexpired link of a password
\* they had not imported creates exactly one userPassword row for (user,
\* password) and is answered 201; it is answered 409 only when the row
\* existed before the request, and then it creates no row.
C30_ImportOnceAnd201 ==
  \A k \in 1..Len(posts) :
    PasswordImport(k) =>
      /\ ~posts[k].existed =>
           /\ posts[k].status = 201
           /\ posts[k].created = 1
           /\ <<posts[k].userId, shareableLink.password>> \in userPassword
      /\ posts[k].status = 409 => (posts[k].existed /\ posts[k].created = 0)

\* cross-check: the same holds of the handler of share/[token] when no other
\* request is under way
AloneOnShareToken ==
  (Len(posts) = 1 /\ posts[1].route = "share/[token]") => C30_ImportOnceAnd201

====
